---- MODULE Spec2Model ----
(***************************************************************************)
(* The airspace world model of neurlaplay: the aircraft track registry,    *)
(* the conflict detector and the world-model orchestrator.                 *)
(*                                                                         *)
(* Numbers.  The source computes with floats; the model uses fixed point:  *)
(*   latitude / longitude   1e-5 degree                                    *)
(*   distance               1e-3 nautical mile (mnm)                       *)
(*   speed                  1e-3 knot                                      *)
(*   time                   second                                         *)
(* Every position of the model lies on one meridian (one longitude), where *)
(* the Haversine distance of Position.distance_to is exactly               *)
(* R * |dlat|, the bearing is 0 or 180 degrees, and dead reckoning moves   *)
(* along the meridian.                                                     *)
(***************************************************************************)
EXTENDS Integers, Sequences, FiniteSets, TLC

VARIABLES
    heap,              \* the Aircraft objects alive: object id -> Aircraft
    aircraft,          \* ATCWorldModel.aircraft: the object ids, in dict order
    wind_direction,    \* ATCWorldModel.wind_direction
    wind_speed,        \* ATCWorldModel.wind_speed
    active_runways,    \* ATCWorldModel.active_runways
    topology,          \* ATCWorldModel.topology: nothing or the runway registry
    active_conflicts,  \* ConflictDetector.active_conflicts: id -> Conflict
    last_update_time,  \* ATCWorldModel.last_update_time
    update_count,      \* ATCWorldModel.update_count
    now,               \* the wall clock (time.time(), datetime.now())
    world_state,       \* the WorldState the decision layer holds, or nothing
    conflicts,         \* the list detect_all_conflicts returned last
    ret                \* the last call: the operation, its result, whether it
                       \* raised, whether the detector ran, the callsigns of
                       \* the snapshot, the callsigns removed

vars == <<heap, aircraft, wind_direction, wind_speed, active_runways, topology,
          active_conflicts, last_update_time, update_count, now, world_state,
          conflicts, ret>>

\* Python's None where the other values are strings
None == "None"

\* an optional value that is not a string: absent, or present with its value
Nothing == <<>>

Some(x) == <<x>>

Abs(x) == IF x < 0 THEN -x ELSE x

Min(a, b) == IF a <= b THEN a ELSE b

(***************************************************************************)
(* Bounds of the model.                                                    *)
(***************************************************************************)
\* update cycles explored when only perception drives the orchestrator
MaxCycles == 3
\* update cycles explored when the decision layer calls in between
MaxCommandCycles == 2
\* tracks in a list handed directly to the detector
MaxTracks == 3
\* update cycles explored with snapshots that leave optional fields out
MaxFieldCycles == 2
\* update_position calls explored on one track
MaxCalls == 26
\* of these, the calls that repeat the position of the call before
MaxRepeats == 2
\* update_position calls on each of two tracks before the detector is run
MaxFixes == 2
\* directed edges of the taxiway graph
MaxEdges == 3
\* update_position calls on each of two tracks between detection passes
MaxMoves == 2
\* runways of a topology asked for its intersecting runways
MaxRunways == 3
\* update cycles explored with clearances and reported statuses
MaxClearanceCycles == 3
\* nested send_command calls explored; at this depth the interpreter's
\* recursion limit is taken to be reached
MaxDepth == 4

(***************************************************************************)
(* Program constants.                                                      *)
(***************************************************************************)
\* ConflictRule.horizontal_separation_nm = 3.0
horizontal_separation_nm == 3000
\* the literal 2.0 of _check_horizontal_separation
critical_separation_nm == 2000
\* ConflictRule.wake_separation_heavy_heavy = 4.0
wake_separation_heavy_heavy == 4000
\* ConflictRule.wake_separation_heavy_medium = 5.0
wake_separation_heavy_medium == 5000
\* ConflictRule.wake_separation_heavy_light = 6.0
wake_separation_heavy_light == 6000
\* ConflictRule.prediction_horizon_seconds = 120.0
prediction_horizon_seconds == 120
\* ConflictRule.prediction_steps = 12
prediction_steps == 12
\* the history length kept by Aircraft.update_position
HistoryLimit == 20
\* R * pi / 180 = 60.0405 nm per degree of latitude (R = 3440.065), times 100
NmPerDegE2 == 6004

(***************************************************************************)
(* AircraftStatus                                                          *)
(***************************************************************************)
AircraftStatus ==
    {"IN_FLIGHT", "ON_APPROACH", "ON_FINAL", "LANDING", "LANDED", "ON_RUNWAY",
     "ON_GROUND", "TAXIING", "AT_GATE", "TAKING_OFF", "DEPARTING", "DEPARTED",
     "UNKNOWN"}

(***************************************************************************)
(* Position                                                                *)
(***************************************************************************)
Position(lat, lon, altitude_ft, timestamp) ==
    [lat |-> lat, lon |-> lon, altitude_ft |-> altitude_ft,
     timestamp |-> timestamp]

\* Position.distance_to, in mnm, for two positions of one meridian:
\* dlon = 0, so a = sin(dlat/2)^2 and R * c = R * |dlat|.
distance_to(p1, p2) == (Abs(p2.lat - p1.lat) * NmPerDegE2) \div 10000

\* Position.bearing_to for two positions of one meridian: x = 0 and
\* y = sin(lat2 - lat1), so atan2(x, y) is 0 (north, also for y = 0) or 180.
bearing_to(p1, p2) == IF p2.lat >= p1.lat THEN 0 ELSE 180

(***************************************************************************)
(* Aircraft                                                                *)
(***************************************************************************)
\* The dataclass constructor as _add_aircraft calls it: the history starts
\* empty, first_seen / last_seen are the time of construction.
NewAircraft(callsign, position, status, heading, speed_knots, weight_class, t) ==
    [callsign |-> callsign, position |-> position, status |-> status,
     heading |-> heading, speed_knots |-> speed_knots,
     weight_class |-> weight_class, position_history |-> <<>>,
     assigned_runway |-> None, last_seen |-> t]

\* an update that evicts from the wrong end: the newest entry goes
UpdateEvictingNewest(ac, new_position) ==
    LET appended == Append(ac.position_history, new_position)
    IN [ac EXCEPT !.position = new_position,
                  !.position_history =
                      IF Len(appended) > HistoryLimit
                          THEN SubSeq(appended, 1, HistoryLimit)
                          ELSE appended,
                  !.last_seen = new_position.timestamp]

\* an update that leaves last_seen as it was
UpdateKeepingLastSeen(ac, new_position) ==
    LET appended == Append(ac.position_history, new_position)
    IN [ac EXCEPT !.position = new_position,
                  !.position_history =
                      IF Len(appended) > HistoryLimit THEN Tail(appended)
                                                     ELSE appended]

update_position(ac, new_position) ==
    LET appended == Append(ac.position_history, new_position)
    IN [ac EXCEPT !.position = new_position,
                  !.position_history =
                      IF Len(appended) > HistoryLimit THEN Tail(appended)
                                                     ELSE appended,
                  !.last_seen = new_position.timestamp]

\* a velocity that wants three history entries
VelocityFromThree(ac) ==
    LET h == ac.position_history
    IN IF Len(h) < 3 THEN Nothing
       ELSE LET p1 == h[Len(h) - 1]
                p2 == h[Len(h)]
                dt == p2.timestamp - p1.timestamp
            IN IF dt = 0 THEN Nothing
               ELSE Some(<<(distance_to(p1, p2) * 3600) \div dt, bearing_to(p1, p2)>>)

\* Aircraft.velocity_vector: nothing, or <<speed (1e-3 knot), heading>>.
velocity_vector(ac) ==
    LET h == ac.position_history
    IN IF Len(h) < 2 THEN Nothing
       ELSE LET p1 == h[Len(h) - 1]
                p2 == h[Len(h)]
                dt == p2.timestamp - p1.timestamp
            IN IF dt = 0 THEN Nothing
               ELSE Some(<<(distance_to(p1, p2) * 3600) \div dt, bearing_to(p1, p2)>>)

\* Aircraft.predict_position: nothing, or the position.  Every track of the
\* model has a position (the orchestrator builds no track without one), so
\* `not self.position` is false.  cos(heading) is 1 or -1 and sin(heading) is 0
\* on a meridian; one mnm is 1/60000 degree, 5/3 of the latitude unit.
predict_position(ac, dt) ==
    IF velocity_vector(ac) = Nothing THEN Nothing
    ELSE LET v == velocity_vector(ac)[1]
             distance_mnm == (v[1] * dt) \div 3600
             lat_change == IF v[2] = 0 THEN (distance_mnm * 5) \div 3
                                       ELSE -((distance_mnm * 5) \div 3)
         IN Some(Position(ac.position.lat + lat_change, ac.position.lon,
                          ac.position.altitude_ft, ac.position.timestamp + dt))

\* Aircraft.separation_from; the infinity of a missing position does not
\* occur, every track of the model has a position
separation_from(ac, other) == distance_to(ac.position, other.position)

(***************************************************************************)
(* Runway and Conflict                                                     *)
(***************************************************************************)
Runway(name, magnetic_heading, threshold_position) ==
    [name |-> name, magnetic_heading |-> magnetic_heading,
     threshold_position |-> threshold_position]

Conflict(aircraft1, aircraft2, conflict_type, severity, distance_nm, time_to_conflict, description) ==
    [aircraft1 |-> aircraft1, aircraft2 |-> aircraft2,
     conflict_type |-> conflict_type, severity |-> severity,
     distance_nm |-> distance_nm, time_to_conflict |-> time_to_conflict,
     description |-> description]

(***************************************************************************)
(* List helpers: the loops and sorts of the detector.                      *)
(***************************************************************************)
\* for i, x in enumerate(xs): for y in xs[i+1:]  -- the index pairs, in order
PairSeq(n) ==
    LET all == [k \in 1..(n * n) |-> <<((k - 1) \div n) + 1, ((k - 1) % n) + 1>>]
    IN SelectSeq(all, LAMBDA p : p[1] < p[2])

RECURSIVE ConcatAll(_)
ConcatAll(seqs) ==
    IF seqs = <<>> THEN <<>> ELSE Head(seqs) \o ConcatAll(Tail(seqs))

\* list.sort(key = ...): stable, ascending in the key; keys[k] is the key
\* of xs[k]
SortByKey(xs, keys) ==
    LET place(k) == 1 + Cardinality({m \in 1..Len(xs) :
                            keys[m] < keys[k] \/ (keys[m] = keys[k] /\ m < k)})
    IN [pos \in 1..Len(xs) |-> xs[CHOOSE k \in 1..Len(xs) : place(k) = pos]]

\* list.sort(key = ..., reverse = True): descending in the key, and elements
\* of equal key keep their order
SortByKeyReverse(xs, keys) ==
    LET place(k) == 1 + Cardinality({m \in 1..Len(xs) :
                            keys[m] > keys[k] \/ (keys[m] = keys[k] /\ m < k)})
    IN [pos \in 1..Len(xs) |-> xs[CHOOSE k \in 1..Len(xs) : place(k) = pos]]

\* the keys of a dict filled in list order: first occurrences, in order
FirstOccurrences(xs) ==
    LET idx == SelectSeq([k \in 1..Len(xs) |-> k],
                         LAMBDA k : \A m \in 1..(k - 1) : xs[m] /= xs[k])
    IN [k \in 1..Len(idx) |-> xs[idx[k]]]

(***************************************************************************)
(* Python's order of the strings the code compares or sorts.               *)
(***************************************************************************)
\* 'advisory' < 'critical' < 'warning'
SeverityStringOrder == <<"advisory", "critical", "warning">>

\* the callsigns of the model, in string order
CallsignStringOrder == <<"AAL789", "BAW117", "UAL123", "VIR401">>

IndexIn(xs, x) == CHOOSE k \in 1..Len(xs) : xs[k] = x

Callsigns == {CallsignStringOrder[k] : k \in 1..Len(CallsignStringOrder)}

(***************************************************************************)
(* ConflictDetector                                                        *)
(***************************************************************************)
\* a separation check that calls every violation critical
SeparationAlwaysCritical(acs) ==
    LET violation(p) ==
            /\ ~(acs[p[1]].status = "ON_GROUND" \/ acs[p[2]].status = "ON_GROUND")
            /\ separation_from(acs[p[1]], acs[p[2]]) < horizontal_separation_nm
        found == SelectSeq(PairSeq(Len(acs)), violation)
        make(p) ==
            LET separation_nm == separation_from(acs[p[1]], acs[p[2]])
            IN Conflict(acs[p[1]].callsign, acs[p[2]].callsign,
                        "separation_violation", "critical", separation_nm, Nothing,
                        <<"Separation violation", acs[p[1]].callsign,
                          acs[p[2]].callsign, separation_nm>>)
    IN [k \in 1..Len(found) |-> make(found[k])]

_check_horizontal_separation(acs) ==
    LET violation(p) ==
            /\ ~(acs[p[1]].status = "ON_GROUND" \/ acs[p[2]].status = "ON_GROUND")
            /\ separation_from(acs[p[1]], acs[p[2]]) < horizontal_separation_nm
        found == SelectSeq(PairSeq(Len(acs)), violation)
        make(p) ==
            LET separation_nm == separation_from(acs[p[1]], acs[p[2]])
            IN Conflict(acs[p[1]].callsign, acs[p[2]].callsign,
                        "separation_violation",
                        IF separation_nm < critical_separation_nm
                            THEN "critical" ELSE "warning",
                        separation_nm, Nothing,
                        <<"Separation violation", acs[p[1]].callsign,
                          acs[p[2]].callsign, separation_nm>>)
    IN [k \in 1..Len(found) |-> make(found[k])]

\* a runway test that looks at the assigned runway alone
AssignedTo(ac, runway) == ac.assigned_runway = runway.name

_is_on_runway(ac, runway) ==
    /\ ac.assigned_runway = runway.name
    /\ ac.status \in {"TAKING_OFF", "LANDING", "ON_RUNWAY"}

_check_runway_incursions(acs, runways) ==
    LET on_runway(runway) == SelectSeq(acs, LAMBDA ac : _is_on_runway(ac, runway))
        found == SelectSeq(runways, LAMBDA runway : Len(on_runway(runway)) > 1)
        make(runway) ==
            LET on == on_runway(runway)
            IN Conflict(on[1].callsign, on[2].callsign, "runway_incursion",
                        "critical", separation_from(on[1], on[2]), Nothing,
                        <<"Runway incursion", runway.name,
                          [k \in 1..Len(on) |-> on[k].callsign]>>)
    IN [k \in 1..Len(found) |-> make(found[k])]

\* abs(lat) + abs(lon), in 1e-5 degree
_distance_to_threshold(ac) == Abs(ac.position.lat) + Abs(ac.position.lon)

_required_wake_separation(leader, follower) ==
    IF leader.weight_class = "HEAVY"
    THEN IF follower.weight_class = "HEAVY" THEN wake_separation_heavy_heavy
         ELSE IF follower.weight_class = "MEDIUM" THEN wake_separation_heavy_medium
         ELSE wake_separation_heavy_light
    ELSE horizontal_separation_nm

\* the approaches dict: its keys in insertion order, and the list of a key
ApproachKey(ac) == IF ac.assigned_runway = None THEN "UNKNOWN" ELSE ac.assigned_runway

ApproachKeys(acs) ==
    LET on_final == SelectSeq(acs, LAMBDA ac : ac.status = "ON_FINAL")
    IN FirstOccurrences([k \in 1..Len(on_final) |-> ApproachKey(on_final[k])])

ApproachList(acs, runway) ==
    SelectSeq(acs, LAMBDA ac : ac.status = "ON_FINAL" /\ ApproachKey(ac) = runway)

_check_wake_turbulence(acs) ==
    LET keys == ApproachKeys(acs)
        sequence(runway) ==
            LET ac_list == ApproachList(acs, runway)
            IN SortByKey(ac_list, [k \in 1..Len(ac_list) |->
                                      _distance_to_threshold(ac_list[k])])
        short(ac_list, i) ==
            separation_from(ac_list[i], ac_list[i + 1])
                < _required_wake_separation(ac_list[i], ac_list[i + 1])
        make(leader, follower) ==
            Conflict(leader.callsign, follower.callsign, "wake_turbulence",
                     "warning", separation_from(leader, follower), Nothing,
                     <<"Wake turbulence", follower.callsign, "too close behind",
                       leader.callsign, separation_from(leader, follower),
                       _required_wake_separation(leader, follower)>>)
        of_runway(runway) ==
            LET ac_list == sequence(runway)
                found == SelectSeq([i \in 1..(Len(ac_list) - 1) |-> i],
                                   LAMBDA i : short(ac_list, i))
            IN [k \in 1..Len(found) |-> make(ac_list[found[k]], ac_list[found[k] + 1])]
    IN ConcatAll([k \in 1..Len(keys) |-> of_runway(keys[k])])

\* One step of the prediction loop.  `break` leaves the inner loop over ac2:
\* for each ac1 the first later aircraft in conflict is reported, the
\* aircraft after it are not looked at in this step.
PredictStep(acs, step) ==
    LET dt == prediction_horizon_seconds \div prediction_steps
        time_ahead == dt * step
        predicted == [k \in 1..Len(acs) |-> predict_position(acs[k], time_ahead)]
        hit(i, j) ==
            /\ predicted[i] /= Nothing
            /\ predicted[j] /= Nothing
            /\ distance_to(predicted[i][1], predicted[j][1]) < horizontal_separation_nm
        hits(i) == {j \in (i + 1)..Len(acs) : hit(i, j)}
        first(i) == CHOOSE j \in hits(i) : \A m \in hits(i) : j <= m
        found == SelectSeq([i \in 1..Len(acs) |-> i], LAMBDA i : hits(i) /= {})
        make(i, j) ==
            Conflict(acs[i].callsign, acs[j].callsign, "predicted_conflict",
                     "advisory", distance_to(predicted[i][1], predicted[j][1]),
                     Some(time_ahead),
                     <<"Predicted conflict", time_ahead, acs[i].callsign,
                       acs[j].callsign, distance_to(predicted[i][1], predicted[j][1])>>)
    IN [k \in 1..Len(found) |-> make(found[k], first(found[k]))]

_predict_conflicts(acs) ==
    ConcatAll([step \in 1..prediction_steps |-> PredictStep(acs, step)])

\* sorted([aircraft1, aircraft2]) and the conflict type
_conflict_id(c) ==
    IF IndexIn(CallsignStringOrder, c.aircraft1) <= IndexIn(CallsignStringOrder, c.aircraft2)
    THEN <<c.aircraft1, c.aircraft2, c.conflict_type>>
    ELSE <<c.aircraft2, c.aircraft1, c.conflict_type>>

\* the dict comprehension: of two conflicts with one id the later one stays
_update_active_conflicts(new_conflicts) ==
    LET ids == {_conflict_id(new_conflicts[k]) : k \in 1..Len(new_conflicts)}
        last(id) == CHOOSE k \in 1..Len(new_conflicts) :
                        /\ _conflict_id(new_conflicts[k]) = id
                        /\ \A m \in (k + 1)..Len(new_conflicts) :
                               _conflict_id(new_conflicts[m]) /= id
    IN [id \in ids |-> new_conflicts[last(id)]]

\* new_ids of _update_active_conflicts
ConflictIds(new_conflicts) ==
    {_conflict_id(new_conflicts[k]) : k \in 1..Len(new_conflicts)}

\* the ids _update_active_conflicts logs as new: new_ids - old_ids
appeared(active, new_conflicts) == ConflictIds(new_conflicts) \ DOMAIN active

\* the ids _update_active_conflicts logs as resolved: old_ids - new_ids
resolved(active, new_conflicts) == DOMAIN active \ ConflictIds(new_conflicts)

SeverityKey(c) == IndexIn(SeverityStringOrder, c.severity)

\* detect_all_conflicts: the returned list and the new active_conflicts
DetectedConflicts(acs, runways) ==
    _check_horizontal_separation(acs)
        \o _check_runway_incursions(acs, runways)
        \o _check_wake_turbulence(acs)
        \o _predict_conflicts(acs)

detect_all_conflicts(acs, runways) ==
    LET found == DetectedConflicts(acs, runways)
    IN [active |-> _update_active_conflicts(found),
        returned |-> SortByKeyReverse(found, [k \in 1..Len(found) |-> SeverityKey(found[k])])]

(***************************************************************************)
(* ATCWorldModel                                                           *)
(***************************************************************************)
\* list(self.aircraft.values())
Tracks(h, reg) == [k \in 1..Len(reg) |-> h[reg[k]]]

\* self.aircraft.keys()
RegisteredCallsigns(h, reg) == {h[reg[k]].callsign : k \in 1..Len(reg)}

\* self.aircraft[callsign]: the object id
Lookup(h, reg, callsign) ==
    reg[CHOOSE k \in 1..Len(reg) : h[reg[k]].callsign = callsign]

\* a fresh object
NewOid(h) == CHOOSE o \in 1..(Cardinality(DOMAIN h) + 1) : o \notin DOMAIN h

\* list(self.topology.runways.values()) if self.topology else []
RunwayList(topo) == IF topo = Nothing THEN <<>> ELSE topo[1]

\* self.topology.runways: the names
RunwayNames(topo) == {topo[1][k].name : k \in 1..Len(topo[1])}

\* data.get(key, default) for a key that holds a string
GetString(value, default) == IF value = None THEN default ELSE value

\* data.get(key, default) for the other keys
Get(value, default) == IF value = Nothing THEN default ELSE value[1]

\* _add_aircraft.  AircraftStatus[name] raises KeyError for an unknown name,
\* before the track is built and registered.
_add_aircraft(st, data, t) ==
    LET status == GetString(data.status, "IN_FLIGHT")
        position == Position(data.lat, data.lon, Get(data.altitude, 0), t)
        oid == NewOid(st.heap)
        ac == NewAircraft(data.callsign, position, status, Get(data.heading, 0),
                          Get(data.speed, 0), GetString(data.weight_class, "MEDIUM"), t)
    IN IF status \notin AircraftStatus
       THEN [st EXCEPT !.raised = TRUE]
       ELSE [heap |-> [o \in DOMAIN st.heap \cup {oid} |->
                          IF o = oid THEN ac ELSE st.heap[o]],
             aircraft |-> Append(st.aircraft, oid),
             raised |-> FALSE]

\* an update that takes the default of _add_aircraft for a status left out
UpdateWithDefaultStatus(st, data, t) ==
    LET oid == Lookup(st.heap, st.aircraft, data.callsign)
        old == st.heap[oid]
        new_position == Position(data.lat, data.lon,
                                 Get(data.altitude, old.position.altitude_ft), t)
        moved == [update_position(old, new_position) EXCEPT
                      !.heading = Get(data.heading, old.heading),
                      !.speed_knots = Get(data.speed, old.speed_knots)]
        new_status == GetString(data.status, "IN_FLIGHT")
        changes == new_status /= old.status
        raises == changes /\ new_status \notin AircraftStatus
        updated == IF changes /\ ~raises THEN [moved EXCEPT !.status = new_status]
                                         ELSE moved
    IN [heap |-> [st.heap EXCEPT ![oid] = updated],
        aircraft |-> st.aircraft,
        raised |-> raises]

\* _update_aircraft.  The position, heading and speed are written before the
\* status; AircraftStatus[name] raises KeyError for an unknown name.
_update_aircraft(st, data, t) ==
    LET oid == Lookup(st.heap, st.aircraft, data.callsign)
        old == st.heap[oid]
        new_position == Position(data.lat, data.lon,
                                 Get(data.altitude, old.position.altitude_ft), t)
        moved == [update_position(old, new_position) EXCEPT
                      !.heading = Get(data.heading, old.heading),
                      !.speed_knots = Get(data.speed, old.speed_knots)]
        new_status == data.status
        changes == new_status /= None /\ new_status /= old.status
        raises == changes /\ new_status \notin AircraftStatus
        updated == IF changes /\ ~raises THEN [moved EXCEPT !.status = new_status]
                                         ELSE moved
    IN [heap |-> [st.heap EXCEPT ![oid] = updated],
        aircraft |-> st.aircraft,
        raised |-> raises]

\* the loop over perception_data['aircraft'], left at the first exception
RECURSIVE ProcessEntries(_, _, _)
ProcessEntries(entries, st, t) ==
    IF entries = <<>> \/ st.raised THEN st
    ELSE LET data == Head(entries)
             next == IF data.callsign \in RegisteredCallsigns(st.heap, st.aircraft)
                     THEN _update_aircraft(st, data, t)
                     ELSE _add_aircraft(st, data, t)
         IN ProcessEntries(Tail(entries), next, t)

\* a removal loop that deletes nothing
RemoveNothing(h, reg, exited) == reg

\* the removal loop: del self.aircraft[callsign] for every exited callsign
_remove_aircraft(h, reg, exited) ==
    SelectSeq(reg, LAMBDA o : h[o].callsign \notin exited)

\* _detect_conflicts: nothing is done for an empty registry
_detect_conflicts(h, reg, topo, active, returned) ==
    IF reg = <<>>
    THEN [active |-> active, returned |-> returned, detected |-> FALSE]
    ELSE LET ran(d) == [active |-> d.active, returned |-> d.returned,
                        detected |-> TRUE]
         IN ran(detect_all_conflicts(Tracks(h, reg), RunwayList(topo)))

\* the objects still referenced: by the registry or by the held WorldState
Live(h, reg, ws) ==
    LET held == IF ws = Nothing THEN {}
                ELSE {ws[1].aircraft[c] : c \in DOMAIN ws[1].aircraft}
        keep == {reg[k] : k \in 1..Len(reg)} \cup held
    IN [o \in keep |-> h[o]]

\* update_from_perception, as a function of the orchestrator's state
update_from_perception(perception_data, current_time) ==
    LET wind_given == perception_data.wind /= Nothing
        new_direction == IF wind_given THEN Get(perception_data.wind[1].direction, 0)
                                       ELSE wind_direction
        new_speed == IF wind_given THEN Get(perception_data.wind[1].speed, 0)
                                   ELSE wind_speed
        new_runways == Get(perception_data.active_runways, active_runways)
        entries == perception_data.aircraft
        detected_callsigns == {entries[k].callsign : k \in 1..Len(entries)}
        \* an exception of the loop leaves the method: nothing after it runs
        interrupted(st) ==
            [heap |-> st.heap, aircraft |-> st.aircraft,
             wind_direction |-> new_direction, wind_speed |-> new_speed,
             active_runways |-> new_runways,
             active_conflicts |-> active_conflicts, conflicts |-> conflicts,
             last_update_time |-> last_update_time, update_count |-> update_count,
             raised |-> TRUE, detected |-> FALSE,
             detected_callsigns |-> detected_callsigns, exited |-> {}]
        \* the detection and the counters, after the removals
        completed(h, reg, exited, d) ==
            [heap |-> h, aircraft |-> reg,
             wind_direction |-> new_direction, wind_speed |-> new_speed,
             active_runways |-> new_runways,
             active_conflicts |-> d.active, conflicts |-> d.returned,
             last_update_time |-> current_time, update_count |-> update_count + 1,
             raised |-> FALSE, detected |-> d.detected,
             detected_callsigns |-> detected_callsigns, exited |-> exited]
        detect(h, reg, exited) ==
            completed(h, reg, exited,
                      _detect_conflicts(h, reg, topology, active_conflicts, conflicts))
        remove(st, exited) ==
            detect(st.heap, _remove_aircraft(st.heap, st.aircraft, exited), exited)
        reconcile(st) ==
            IF st.raised
            THEN interrupted(st)
            ELSE remove(st, RegisteredCallsigns(st.heap, st.aircraft)
                                \ detected_callsigns)
    IN reconcile(ProcessEntries(entries,
                     [heap |-> heap, aircraft |-> aircraft, raised |-> FALSE],
                     current_time))

\* an assignment that never looks the runway up
AssignAnyRunway(h, reg, topo, callsign, runway_name) ==
    IF callsign \notin RegisteredCallsigns(h, reg)
    THEN [heap |-> h, result |-> FALSE]
    ELSE [heap |-> [h EXCEPT ![Lookup(h, reg, callsign)].assigned_runway = runway_name],
          result |-> TRUE]

\* assign_runway: the new heap and the returned value
assign_runway(h, reg, topo, callsign, runway_name) ==
    IF callsign \notin RegisteredCallsigns(h, reg)
    THEN [heap |-> h, result |-> FALSE]
    ELSE IF topo /= Nothing /\ runway_name \notin RunwayNames(topo)
    THEN [heap |-> h, result |-> FALSE]
    ELSE [heap |-> [h EXCEPT ![Lookup(h, reg, callsign)].assigned_runway = runway_name],
          result |-> TRUE]

\* a clearance that takes every keyword but 'takeoff' and 'landing' for 'taxi'
ClearWithTaxiDefault(h, reg, callsign, clearance_type) ==
    IF callsign \notin RegisteredCallsigns(h, reg)
    THEN [heap |-> h, result |-> FALSE]
    ELSE LET oid == Lookup(h, reg, callsign)
         IN [heap |->
                 IF clearance_type = "takeoff"
                     THEN [h EXCEPT ![oid].status = "TAKING_OFF"]
                 ELSE IF clearance_type = "landing"
                     THEN [h EXCEPT ![oid].status = "LANDING"]
                 ELSE [h EXCEPT ![oid].status = "TAXIING"],
             result |-> TRUE]

\* clear_aircraft: the new heap and the returned value
clear_aircraft(h, reg, callsign, clearance_type) ==
    IF callsign \notin RegisteredCallsigns(h, reg)
    THEN [heap |-> h, result |-> FALSE]
    ELSE LET oid == Lookup(h, reg, callsign)
         IN [heap |->
                 IF clearance_type = "takeoff"
                     THEN [h EXCEPT ![oid].status = "TAKING_OFF"]
                 ELSE IF clearance_type = "landing"
                     THEN [h EXCEPT ![oid].status = "LANDING"]
                 ELSE IF clearance_type = "taxi"
                     THEN [h EXCEPT ![oid].status = "TAXIING"]
                 ELSE h,
             result |-> TRUE]

\* get_state: dict.copy() and list.copy() are shallow, the Aircraft objects
\* of the copy are the registry's own objects
get_state(h, reg, t) ==
    [timestamp |-> t,
     aircraft |-> [c \in RegisteredCallsigns(h, reg) |-> Lookup(h, reg, c)],
     active_runways |-> active_runways,
     wind_direction |-> wind_direction,
     wind_speed |-> wind_speed,
     conflicts |-> {active_conflicts[id].description : id \in DOMAIN active_conflicts}]

\* ATCWorldModel.get_aircraft_on_runway
get_aircraft_on_runway(h, reg, runway_name) ==
    SelectSeq(Tracks(h, reg), LAMBDA ac :
        /\ ac.assigned_runway = runway_name
        /\ ac.status \in {"ON_RUNWAY", "TAKING_OFF", "LANDING"})

\* ConflictDetector.has_critical_conflicts
has_critical_conflicts ==
    \E id \in DOMAIN active_conflicts : active_conflicts[id].severity = "critical"

\* ConflictDetector.get_conflicts_for_aircraft
get_conflicts_for_aircraft(callsign) ==
    {active_conflicts[id] : id \in {i \in DOMAIN active_conflicts :
        callsign \in {active_conflicts[i].aircraft1, active_conflicts[i].aircraft2}}}

(***************************************************************************)
(* The inputs of the model.                                                *)
(***************************************************************************)
\* the meridian of every position: 73.78 W
Meridian == 0 - 7378000

\* the airport: runway 09 with its threshold south of the traffic, runway 04L
\* with its threshold north of it
Airport ==
    <<Runway("09", 90, Position(4060000, Meridian, 0, 0)),
      Runway("04L", 40, Position(4080000, Meridian, 0, 0))>>

\* seconds between two perception cycles
CyclePeriods == {10}

\* latitudes reported by perception: 40.64 N, 2.5 nm north of it, 6 nm north
\* of it
SnapLats == {4064000, 4068170, 4074000}

\* the callsigns perception reports to the orchestrator
SnapCallsigns == {"AAL789", "UAL123"}

WeightOf(callsign) ==
    CASE callsign = "AAL789" -> "HEAVY"
      [] callsign = "BAW117" -> "MEDIUM"
      [] callsign = "UAL123" -> "LIGHT"
      [] OTHER -> "SUPER"

Entry(callsign, lat, status) ==
    [callsign |-> callsign, lat |-> lat, lon |-> Meridian, altitude |-> Nothing,
     heading |-> Nothing, speed |-> Nothing, status |-> status,
     weight_class |-> WeightOf(callsign)]

\* an entry with its optional keys given or left out
FieldEntry(callsign, lat, altitude, heading, speed, status) ==
    [callsign |-> callsign, lat |-> lat, lon |-> Meridian, altitude |-> altitude,
     heading |-> heading, speed |-> speed, status |-> status,
     weight_class |-> WeightOf(callsign)]

\* the aircraft lists of a snapshot: every callsign at most once, in string
\* order
EntryLists(callsigns, lats, statuses) ==
    LET choice == [callsigns -> {Nothing} \cup (lats \X statuses)]
        ordered == SelectSeq(CallsignStringOrder, LAMBDA c : c \in callsigns)
        list(f) ==
            LET present == SelectSeq(ordered, LAMBDA c : f[c] /= Nothing)
            IN [k \in 1..Len(present) |->
                   Entry(present[k], f[present[k]][1], f[present[k]][2])]
    IN {list(f) : f \in choice}

NoExtras == [wind |-> Nothing, active_runways |-> Nothing]

WindAndRunways ==
    [wind |-> Some([direction |-> Some(270), speed |-> Some(15)]),
     active_runways |-> Some(<<"09">>)]

SnapshotsOf(lists, extras) ==
    {[aircraft |-> l, wind |-> x.wind, active_runways |-> x.active_runways] :
        l \in lists, x \in extras}

\* perception alone: both callsigns over all latitudes, no status reported
CycleSnapshots ==
    SnapshotsOf(EntryLists(SnapCallsigns, SnapLats, {None}), {NoExtras})

\* with the decision layer calling in: both callsigns, one latitude
CommandSnapshots ==
    SnapshotsOf(EntryLists(SnapCallsigns, {4064000}, {None}), {NoExtras})

\* with a WorldState held: one callsign, two latitudes, wind and runways
StateSnapshots ==
    SnapshotsOf(EntryLists({"AAL789"}, {4064000, 4068170}, {None}),
                {NoExtras, WindAndRunways})

\* entries of AAL789: every optional key given, each one left out in turn, all
\* left out, and a status name that AircraftStatus does not have
FieldEntries ==
    {FieldEntry("AAL789", 4064000, Some(3000), Some(90), Some(250), "ON_APPROACH"),
     FieldEntry("AAL789", 4064000, Nothing, Some(90), Some(250), "ON_APPROACH"),
     FieldEntry("AAL789", 4064000, Some(3000), Nothing, Some(250), "ON_APPROACH"),
     FieldEntry("AAL789", 4064000, Some(3000), Some(90), Nothing, "ON_APPROACH"),
     FieldEntry("AAL789", 4064000, Some(3000), Some(90), Some(250), None),
     FieldEntry("AAL789", 4064000, Nothing, Nothing, Nothing, None),
     FieldEntry("AAL789", 4064000, Some(3000), Some(90), Some(250), "HOLDING")}

\* wind records: none, complete, without speed, without direction
WindRecords ==
    {Nothing,
     Some([direction |-> Some(270), speed |-> Some(15)]),
     Some([direction |-> Some(270), speed |-> Nothing]),
     Some([direction |-> Nothing, speed |-> Some(15)])}

\* AAL789 with some keys left out, UAL123 after it or not reported
FieldSnapshots ==
    {[aircraft |-> <<e>> \o rest, wind |-> w, active_runways |-> Nothing] :
        e \in FieldEntries,
        rest \in {<<>>, <<Entry("UAL123", 4068170, None)>>},
        w \in WindRecords}

\* arguments of assign_runway and clear_aircraft
CommandCallsigns == SnapCallsigns \cup {"BAW117"}

RunwayArguments == {"09", "27R"}

ClearanceTypes == {"takeoff", "landing", "taxi", "hold"}

(***************************************************************************)
(* The orchestrator as a state machine.                                    *)
(***************************************************************************)
Init ==
    /\ heap = <<>>
    /\ aircraft = <<>>
    /\ wind_direction = 0
    /\ wind_speed = 0
    /\ active_runways = <<>>
    /\ topology \in {Nothing, Some(Airport)}
    /\ active_conflicts = <<>>
    /\ last_update_time = 0
    /\ update_count = 0
    /\ now = 0
    /\ world_state = Nothing
    /\ conflicts = <<>>
    /\ ret = [op |-> "__init__", result |-> Nothing, raised |-> FALSE,
              detected |-> FALSE, callsigns |-> {}, exited |-> {}]

UpdateFromPerception(perception_data, tick, cycles) ==
    /\ (now + tick) \div tick <= cycles
    /\ \E r \in {update_from_perception(perception_data, now + tick)} :
          /\ heap' = Live(r.heap, r.aircraft, world_state)
          /\ aircraft' = r.aircraft
          /\ wind_direction' = r.wind_direction
          /\ wind_speed' = r.wind_speed
          /\ active_runways' = r.active_runways
          /\ active_conflicts' = r.active_conflicts
          /\ conflicts' = r.conflicts
          /\ last_update_time' = r.last_update_time
          /\ update_count' = r.update_count
          /\ ret' = [op |-> "update_from_perception", result |-> Nothing,
                     raised |-> r.raised, detected |-> r.detected,
                     callsigns |-> r.detected_callsigns, exited |-> r.exited]
    /\ now' = now + tick
    /\ UNCHANGED <<topology, world_state>>

AssignRunway(callsign, runway_name) ==
    /\ \E r \in {assign_runway(heap, aircraft, topology, callsign, runway_name)} :
          /\ heap' = r.heap
          /\ ret' = [op |-> "assign_runway", result |-> Some(r.result),
                     raised |-> FALSE, detected |-> FALSE, callsigns |-> {},
                     exited |-> {}]
    /\ UNCHANGED <<aircraft, wind_direction, wind_speed, active_runways, topology,
                   active_conflicts, last_update_time, update_count, now,
                   world_state, conflicts>>

ClearAircraft(callsign, clearance_type) ==
    /\ \E r \in {clear_aircraft(heap, aircraft, callsign, clearance_type)} :
          /\ heap' = r.heap
          /\ ret' = [op |-> "clear_aircraft", result |-> Some(r.result),
                     raised |-> FALSE, detected |-> FALSE, callsigns |-> {},
                     exited |-> {}]
    /\ UNCHANGED <<aircraft, wind_direction, wind_speed, active_runways, topology,
                   active_conflicts, last_update_time, update_count, now,
                   world_state, conflicts>>

GetState ==
    /\ world_state' = Some(get_state(heap, aircraft, now))
    /\ heap' = Live(heap, aircraft, world_state')
    /\ ret' = [op |-> "get_state", result |-> Nothing, raised |-> FALSE,
               detected |-> FALSE, callsigns |-> {}, exited |-> {}]
    /\ UNCHANGED <<aircraft, wind_direction, wind_speed, active_runways, topology,
                   active_conflicts, last_update_time, update_count, now, conflicts>>

\* perception cycles alone
NextCycle ==
    \E perception_data \in CycleSnapshots, tick \in CyclePeriods :
        UpdateFromPerception(perception_data, tick, MaxCycles)

SpecCycle == Init /\ [][NextCycle]_vars

\* perception cycles with the decision layer's calls in between
Next ==
    \/ \E perception_data \in CommandSnapshots, tick \in CyclePeriods :
           UpdateFromPerception(perception_data, tick, MaxCommandCycles)
    \/ \E callsign \in CommandCallsigns, runway_name \in RunwayArguments :
           AssignRunway(callsign, runway_name)
    \/ \E callsign \in CommandCallsigns, clearance_type \in ClearanceTypes :
           ClearAircraft(callsign, clearance_type)

Spec == Init /\ [][Next]_vars

\* the decision layer holds a WorldState while the orchestrator goes on
NextState ==
    \/ \E perception_data \in StateSnapshots, tick \in CyclePeriods :
           UpdateFromPerception(perception_data, tick, MaxCommandCycles)
    \/ \E runway_name \in RunwayArguments : AssignRunway("AAL789", runway_name)
    \/ \E clearance_type \in ClearanceTypes : ClearAircraft("AAL789", clearance_type)
    \/ GetState

SpecState == Init /\ [][NextState]_vars

\* perception cycles whose snapshots leave optional keys out
NextFields ==
    \E perception_data \in FieldSnapshots, tick \in CyclePeriods :
        UpdateFromPerception(perception_data, tick, MaxFieldCycles)

SpecFields == Init /\ [][NextFields]_vars

\* AAL789 at one latitude: not reported, reported without a status, reported
\* as ON_FINAL or as TAXIING
ClearanceSnapshots ==
    SnapshotsOf(EntryLists({"AAL789"}, {4064000}, {None, "ON_FINAL", "TAXIING"}),
                {NoExtras})

\* clearances and runway assignments between cycles that report a status or
\* leave it out
NextClearance ==
    \/ \E perception_data \in ClearanceSnapshots, tick \in CyclePeriods :
           UpdateFromPerception(perception_data, tick, MaxClearanceCycles)
    \/ \E runway_name \in RunwayArguments : AssignRunway("AAL789", runway_name)
    \/ \E clearance_type \in ClearanceTypes : ClearAircraft("AAL789", clearance_type)

SpecClearance == Init /\ [][NextClearance]_vars

(***************************************************************************)
(* One track and the update_position calls made on it.  ret.inserted is    *)
(* the list of the positions passed so far.                                *)
(***************************************************************************)
InitHistory ==
    /\ heap = <<NewAircraft("AAL789", Position(4064000, Meridian, 0, 0),
                            "IN_FLIGHT", 0, 0, "HEAVY", 0)>>
    /\ aircraft = <<1>>
    /\ wind_direction = 0
    /\ wind_speed = 0
    /\ active_runways = <<>>
    /\ topology = Nothing
    /\ active_conflicts = <<>>
    /\ last_update_time = 0
    /\ update_count = 0
    /\ now = 0
    /\ world_state = Nothing
    /\ conflicts = <<>>
    /\ ret = [op |-> "Aircraft", result |-> Nothing, raised |-> FALSE,
              detected |-> FALSE, callsigns |-> {}, exited |-> {},
              inserted |-> <<>>, repeats |-> 0]

\* aircraft.update_position(new_position) on track oid
UpdatePosition(oid, new_position) ==
    /\ heap' = [heap EXCEPT ![oid] = update_position(heap[oid], new_position)]
    /\ ret' = [ret EXCEPT !.op = "update_position",
                          !.inserted = Append(ret.inserted, new_position),
                          !.repeats = IF new_position = heap[oid].position
                                          THEN ret.repeats + 1 ELSE ret.repeats]
    /\ UNCHANGED <<aircraft, wind_direction, wind_speed, active_runways, topology,
                   active_conflicts, last_update_time, update_count, now,
                   world_state, conflicts>>

\* the next fix of the track, ten seconds and 0.1 nm on
NextFix(ac) ==
    Position(ac.position.lat + 167, Meridian, 0, ac.position.timestamp + 10)

NextHistory ==
    /\ Len(ret.inserted) < MaxCalls
    /\ \/ UpdatePosition(1, NextFix(heap[1]))
       \/ /\ ret.repeats < MaxRepeats
          /\ UpdatePosition(1, heap[1].position)

SpecHistory == InitHistory /\ [][NextHistory]_vars

(***************************************************************************)
(* The detector called directly with a list of tracks, as                  *)
(* demo_conflict_resolution does.                                          *)
(***************************************************************************)
\* latitudes of the tracks: 40.64 N, then 1.5 nm, 2.5 nm and 5.0 nm north
DetectLats == {4064000, 4066500, 4068170, 4072330}

\* a track built the way the code builds one: the constructor, then two
\* update_position calls ten seconds apart when the track has moved
\* (moved = the latitude change between them), then the runway
Track(callsign, lat, moved, status, runway, weight_class) ==
    LET fresh == NewAircraft(callsign, Position(lat, Meridian, 0, 0), status,
                             0, 0, weight_class, 0)
        seen == IF moved = Nothing THEN fresh
                ELSE update_position(
                         update_position(fresh,
                             Position(lat - moved[1], Meridian, 0, 0)),
                         Position(lat, Meridian, 0, 10))
    IN [seen EXCEPT !.assigned_runway = runway]

\* the families of track lists
AirspaceFamily ==
    [lats |-> DetectLats, moves |-> {Nothing},
     statuses |-> {"IN_FLIGHT", "ON_GROUND"}, runways |-> {None},
     weights |-> {None}, sizes |-> 0..MaxTracks]

MovingFamily ==
    [lats |-> DetectLats, moves |-> {Nothing, Some(0), Some(1670), Some(0 - 1670)},
     statuses |-> {"IN_FLIGHT"}, runways |-> {None},
     weights |-> {None}, sizes |-> {2, 3}]

RunwayFamily ==
    [lats |-> {4064000}, moves |-> {Nothing},
     statuses |-> {"ON_FINAL", "ON_RUNWAY", "LANDING"},
     runways |-> {None, "09", "04L"},
     weights |-> {None}, sizes |-> 2..MaxTracks]

WakeFamily ==
    [lats |-> DetectLats, moves |-> {Nothing},
     statuses |-> {"ON_FINAL"}, runways |-> {"09", "04L"},
     weights |-> {"LIGHT", "MEDIUM", "HEAVY", "SUPER"}, sizes |-> {2}]

Families == {AirspaceFamily, MovingFamily, RunwayFamily, WakeFamily}

\* the track lists of a family: the first callsigns in string order; a weight
\* class of None stands for the callsign's own
TrackLists(family) ==
    LET options == family.lats \X family.moves \X family.statuses
                       \X family.runways \X family.weights
        list(f) == [k \in DOMAIN f |->
                       Track(CallsignStringOrder[k], f[k][1], f[k][2], f[k][3],
                             f[k][4],
                             IF f[k][5] = None
                                 THEN WeightOf(CallsignStringOrder[k])
                                 ELSE f[k][5])]
    IN UNION {{list(f) : f \in [1..n -> options]} : n \in family.sizes}

InitDetect ==
    /\ \E family \in Families : \E tracks \in TrackLists(family) :
           /\ heap = tracks
           /\ aircraft = [k \in DOMAIN tracks |-> k]
    /\ wind_direction = 0
    /\ wind_speed = 0
    /\ active_runways = <<>>
    /\ topology = Some(Airport)
    /\ active_conflicts = <<>>
    /\ last_update_time = 0
    /\ update_count = 0
    /\ now = 10
    /\ world_state = Nothing
    /\ conflicts = <<>>
    /\ ret = [op |-> "__init__", result |-> Nothing, raised |-> FALSE,
              detected |-> FALSE, callsigns |-> {}, exited |-> {}]

DetectAllConflicts ==
    /\ \E d \in {detect_all_conflicts(Tracks(heap, aircraft), RunwayList(topology))} :
          /\ active_conflicts' = d.active
          /\ conflicts' = d.returned
    /\ ret' = [op |-> "detect_all_conflicts", result |-> Nothing,
               raised |-> FALSE, detected |-> TRUE, callsigns |-> {},
               exited |-> {}]
    /\ UNCHANGED <<heap, aircraft, wind_direction, wind_speed, active_runways,
                   topology, last_update_time, update_count, now, world_state>>

NextDetect == DetectAllConflicts

SpecDetect == InitDetect /\ [][NextDetect]_vars

(***************************************************************************)
(* Two tracks 1.5 nm apart, the fixes they get, and then the detector.     *)
(***************************************************************************)
InitVelocity ==
    /\ heap = <<NewAircraft("AAL789", Position(4064000, Meridian, 0, 0),
                            "IN_FLIGHT", 0, 0, "HEAVY", 0),
                NewAircraft("BAW117", Position(4066500, Meridian, 0, 0),
                            "IN_FLIGHT", 0, 0, "MEDIUM", 0)>>
    /\ aircraft = <<1, 2>>
    /\ wind_direction = 0
    /\ wind_speed = 0
    /\ active_runways = <<>>
    /\ topology = Nothing
    /\ active_conflicts = <<>>
    /\ last_update_time = 0
    /\ update_count = 0
    /\ now = 0
    /\ world_state = Nothing
    /\ conflicts = <<>>
    /\ ret = [op |-> "Aircraft", result |-> Nothing, raised |-> FALSE,
              detected |-> FALSE, callsigns |-> {}, exited |-> {},
              inserted |-> <<>>, repeats |-> 0]

\* the fixes a track can get: where it is or 1 nm north, at the timestamp of
\* the fix before or ten seconds later
Fixes(ac) ==
    {Position(ac.position.lat + north, Meridian, 0, ac.position.timestamp + later) :
        north \in {0, 1670}, later \in {0, 10}}

NextVelocity ==
    \/ /\ ret.op /= "detect_all_conflicts"
       /\ \E oid \in {1, 2} :
              /\ Len(heap[oid].position_history) < MaxFixes
              /\ \E new_position \in Fixes(heap[oid]) :
                     UpdatePosition(oid, new_position)
    \/ DetectAllConflicts

SpecVelocity == InitVelocity /\ [][NextVelocity]_vars

(***************************************************************************)
(* Two tracks on final for runway 04L, and detection passes with position  *)
(* updates in between.  ret.earlier is the set of ids the detector held    *)
(* as active when the pass began.                                          *)
(***************************************************************************)
PassFamily ==
    [lats |-> {4064000, 4068170}, moves |-> {Nothing}, statuses |-> {"ON_FINAL"},
     runways |-> {"04L"}, weights |-> {"HEAVY", "LIGHT"}, sizes |-> {2}]

InitPasses ==
    /\ \E tracks \in TrackLists(PassFamily) :
           /\ heap = tracks
           /\ aircraft = [k \in DOMAIN tracks |-> k]
    /\ wind_direction = 0
    /\ wind_speed = 0
    /\ active_runways = <<>>
    /\ topology = Some(Airport)
    /\ active_conflicts = <<>>
    /\ last_update_time = 0
    /\ update_count = 0
    /\ now = 10
    /\ world_state = Nothing
    /\ conflicts = <<>>
    /\ ret = [op |-> "__init__", result |-> Nothing, raised |-> FALSE,
              detected |-> FALSE, callsigns |-> {}, exited |-> {},
              earlier |-> {}]

\* a pass that sorts the caller's list where the code sorts its own list of
\* the approach
DetectSortingTracks ==
    /\ \E d \in {detect_all_conflicts(Tracks(heap, aircraft), RunwayList(topology))} :
          /\ active_conflicts' = d.active
          /\ conflicts' = d.returned
    /\ aircraft' = SortByKey(aircraft, [k \in 1..Len(aircraft) |->
                                 _distance_to_threshold(heap[aircraft[k]])])
    /\ ret' = [op |-> "detect_all_conflicts", result |-> Nothing,
               raised |-> FALSE, detected |-> TRUE, callsigns |-> {},
               exited |-> {}, earlier |-> DOMAIN active_conflicts]
    /\ UNCHANGED <<heap, wind_direction, wind_speed, active_runways,
                   topology, last_update_time, update_count, now, world_state>>

\* detector.detect_all_conflicts(aircraft_list, runways)
DetectPass ==
    /\ \E d \in {detect_all_conflicts(Tracks(heap, aircraft), RunwayList(topology))} :
          /\ active_conflicts' = d.active
          /\ conflicts' = d.returned
    /\ ret' = [op |-> "detect_all_conflicts", result |-> Nothing,
               raised |-> FALSE, detected |-> TRUE, callsigns |-> {},
               exited |-> {}, earlier |-> DOMAIN active_conflicts]
    /\ UNCHANGED <<heap, aircraft, wind_direction, wind_speed, active_runways,
                   topology, last_update_time, update_count, now, world_state>>

\* aircraft.update_position between two passes: 1 nm north or south of the
\* position, ten seconds after it
MoveTrack(oid, north) ==
    /\ Len(heap[oid].position_history) < MaxMoves
    /\ heap' = [heap EXCEPT ![oid] =
                   update_position(heap[oid],
                       Position(heap[oid].position.lat + north, Meridian, 0,
                                heap[oid].position.timestamp + 10))]
    /\ ret' = [op |-> "update_position", result |-> Nothing, raised |-> FALSE,
               detected |-> FALSE, callsigns |-> {}, exited |-> {},
               earlier |-> {}]
    /\ UNCHANGED <<aircraft, wind_direction, wind_speed, active_runways, topology,
                   active_conflicts, last_update_time, update_count, now,
                   world_state, conflicts>>

NextPasses ==
    \/ \E oid \in {1, 2}, north \in {1670, 0 - 1670} : MoveTrack(oid, north)
    \/ DetectPass

SpecPasses == InitPasses /\ [][NextPasses]_vars

(***************************************************************************)
(* AirportTopology.  In the specification of the topology the variable     *)
(* topology holds the AirportTopology object itself: runways and nodes are *)
(* its two dicts (the values, resp. the keys, in insertion order), graph   *)
(* is the networkx DiGraph: its node set and the weight of every edge.     *)
(***************************************************************************)
\* nx.DiGraph()
EmptyGraph == [nodes |-> {}, edges |-> [e \in {} |-> 0]]

\* AirportTopology.__init__
NewTopology == [runways |-> <<>>, nodes |-> <<>>, graph |-> EmptyGraph]

\* d[key] = value on a dict kept as the list of its values, key(v) the key
DictPut(values, keys, key, value) ==
    IF \E k \in 1..Len(values) : keys[k] = key
    THEN [k \in 1..Len(values) |-> IF keys[k] = key THEN value ELSE values[k]]
    ELSE Append(values, value)

\* graph.add_edge(u, v, weight = w): the end nodes are added with it
GraphAddEdge(g, u, v, w) ==
    [nodes |-> g.nodes \cup {u, v},
     edges |-> [e \in DOMAIN g.edges \cup {<<u, v>>} |->
                   IF e = <<u, v>> THEN w ELSE g.edges[e]]]

\* AirportTopology.add_node
add_node(topo, node_id) ==
    [topo EXCEPT !.nodes = DictPut(topo.nodes, topo.nodes, node_id, node_id),
                 !.graph.nodes = topo.graph.nodes \cup {node_id}]

ThresholdNode(runway_name) == <<runway_name, "threshold">>

\* AirportTopology.add_runway
add_runway(topo, runway) ==
    add_node([topo EXCEPT !.runways =
                  DictPut(topo.runways,
                          [k \in 1..Len(topo.runways) |-> topo.runways[k].name],
                          runway.name, runway)],
             ThresholdNode(runway.name))

\* AirportTopology.add_edge
add_edge(topo, edge) ==
    LET forward == GraphAddEdge(topo.graph, edge.from_node, edge.to_node,
                                edge.distance_meters)
    IN [topo EXCEPT !.graph =
           IF edge.bidirectional
           THEN GraphAddEdge(forward, edge.to_node, edge.from_node,
                             edge.distance_meters)
           ELSE forward]

\* the simple directed paths of the graph from source to target
SimplePaths(g, source, target) ==
    {p \in UNION {[1..n -> g.nodes] : n \in 1..Cardinality(g.nodes)} :
        /\ p[1] = source
        /\ p[Len(p)] = target
        /\ \A i, j \in 1..Len(p) : i /= j => p[i] /= p[j]
        /\ \A i \in 1..(Len(p) - 1) : <<p[i], p[i + 1]>> \in DOMAIN g.edges}

RECURSIVE PathWeight(_, _)
PathWeight(g, p) ==
    IF Len(p) < 2 THEN 0
    ELSE g.edges[<<p[1], p[2]>>] + PathWeight(g, Tail(p))

\* a search that takes the path of the fewest edges, whatever their weights
FewestHops(topo, from_node, to_node) ==
    LET g == topo.graph
        paths == SimplePaths(g, from_node, to_node)
        shortest == {p \in paths : \A q \in paths : Len(p) <= Len(q)}
    IN IF from_node \notin g.nodes
       THEN {[raised |-> TRUE, result |-> Nothing]}
       ELSE IF to_node \notin g.nodes
       THEN {[raised |-> TRUE, result |-> Nothing],
             [raised |-> FALSE, result |-> Nothing]}
       ELSE IF paths = {}
       THEN {[raised |-> FALSE, result |-> Nothing]}
       ELSE {[raised |-> FALSE, result |-> Some(p)] : p \in shortest}

\* the outcomes of AirportTopology.find_shortest_path.  nx.shortest_path raises
\* NodeNotFound, which the method does not catch, for a source that is not in
\* the graph; for a target that is not in the graph it raises NodeNotFound or
\* NetworkXNoPath, depending on the networkx release; between shortest paths
\* of one weight the choice is networkx's.
find_shortest_path(topo, from_node, to_node) ==
    LET g == topo.graph
        paths == SimplePaths(g, from_node, to_node)
        shortest == {p \in paths :
                        \A q \in paths : PathWeight(g, p) <= PathWeight(g, q)}
    IN IF from_node \notin g.nodes
       THEN {[raised |-> TRUE, result |-> Nothing]}
       ELSE IF to_node \notin g.nodes
       THEN {[raised |-> TRUE, result |-> Nothing],
             [raised |-> FALSE, result |-> Nothing]}
       ELSE IF paths = {}
       THEN {[raised |-> FALSE, result |-> Nothing]}
       ELSE {[raised |-> FALSE, result |-> Some(p)] : p \in shortest}

\* the nodes joined to node by edges taken in either direction
RECURSIVE WeaklyReached(_, _)
WeaklyReached(g, reached) ==
    LET more == reached \cup
                {n \in g.nodes : \E m \in reached :
                    <<m, n>> \in DOMAIN g.edges \/ <<n, m>> \in DOMAIN g.edges}
    IN IF more = reached THEN reached ELSE WeaklyReached(g, more)

\* nx.weakly_connected_components
weakly_connected_components(g) == {WeaklyReached(g, {n}) : n \in g.nodes}

\* graph.degree(node): edges in and edges out, a self-loop counts twice
degree(g, node) ==
    Cardinality({e \in DOMAIN g.edges : e[1] = node})
        + Cardinality({e \in DOMAIN g.edges : e[2] = node})

\* AirportTopology.validate_topology.  nx.is_weakly_connected raises
\* NetworkXPointlessConcept for a graph without nodes.
validate_topology(topo) ==
    LET g == topo.graph
        components == weakly_connected_components(g)
        disconnected ==
            IF Cardinality(components) > 1
            THEN <<<<"disconnected components", Cardinality(components)>>>>
            ELSE <<>>
        runway_names == [k \in 1..Len(topo.runways) |-> topo.runways[k].name]
        registered == {topo.nodes[k] : k \in 1..Len(topo.nodes)}
        missing == SelectSeq(runway_names,
                             LAMBDA name : ThresholdNode(name) \notin registered)
        isolated == SelectSeq(topo.nodes, LAMBDA node_id : degree(g, node_id) = 0)
    IN IF g.nodes = {}
       THEN [raised |-> TRUE, result |-> <<>>]
       ELSE [raised |-> FALSE,
             result |-> disconnected
                 \o [k \in 1..Len(missing) |-> <<"missing threshold node", missing[k]>>]
                 \o [k \in 1..Len(isolated) |-> <<"isolated", isolated[k]>>]]

\* 1000 * cos of a multiple of 30 degrees
Cos1000(degrees) ==
    LET d == (degrees % 360) \div 30
    IN <<1000, 866, 500, 0, -500, -866, -1000, -866, -500, 0, 500, 866>>[d + 1]

\* Runway.is_headwind, threshold 90
is_headwind(runway, direction) ==
    LET wind_diff == Abs(runway.magnetic_heading - direction)
    IN Min(wind_diff, 360 - wind_diff) <= 90

\* AirportTopology.get_active_runways
get_active_runways(topo, direction, speed, prefer_into_wind) ==
    LET active == SelectSeq(topo.runways, LAMBDA runway :
                      prefer_into_wind /\ is_headwind(runway, direction))
        headwind(runway) ==
            Abs(speed * Cos1000(Abs(runway.magnetic_heading - direction)))
    IN SortByKeyReverse(active, [k \in 1..Len(active) |-> headwind(active[k])])

\* an intersection test on the plain difference of the headings
IntersectingWithoutWrap(topo, runway_name) ==
    LET names == [k \in 1..Len(topo.runways) |-> topo.runways[k].name]
        base == topo.runways[CHOOSE k \in 1..Len(names) : names[k] = runway_name]
        crossing == SelectSeq(topo.runways, LAMBDA runway :
                        /\ runway.name /= runway_name
                        /\ 45 <= Abs(base.magnetic_heading - runway.magnetic_heading)
                        /\ Abs(base.magnetic_heading - runway.magnetic_heading) <= 135)
    IN IF \A k \in 1..Len(names) : names[k] /= runway_name
       THEN <<>>
       ELSE [k \in 1..Len(crossing) |-> crossing[k].name]

\* AirportTopology.get_intersecting_runways: the names, in dict order
get_intersecting_runways(topo, runway_name) ==
    LET names == [k \in 1..Len(topo.runways) |-> topo.runways[k].name]
        base == topo.runways[CHOOSE k \in 1..Len(names) : names[k] = runway_name]
        angle_diff(runway) ==
            Min(Abs(base.magnetic_heading - runway.magnetic_heading),
                360 - Abs(base.magnetic_heading - runway.magnetic_heading))
        crossing == SelectSeq(topo.runways, LAMBDA runway :
                        /\ runway.name /= runway_name
                        /\ 45 <= angle_diff(runway)
                        /\ angle_diff(runway) <= 135)
    IN IF \A k \in 1..Len(names) : names[k] /= runway_name
       THEN <<>>
       ELSE [k \in 1..Len(crossing) |-> crossing[k].name]

(***************************************************************************)
(* The topology as a state machine.                                        *)
(***************************************************************************)
\* the runways added: 04L and 13R, headings 40 and 130
TopologyRunways ==
    {Runway("04L", 40, Position(4063972, Meridian, 13, 0)),
     Runway("13R", 130, Position(4064833, Meridian, 13, 0))}

\* the ids passed to add_edge and add_node
EdgeNodes == {ThresholdNode("04L"), ThresholdNode("13R"), <<"A1", "intersection">>}

\* the ids passed to find_shortest_path: those, and one never added
QueryNodes == EdgeNodes \cup {<<"B2", "intersection">>}

\* the edges added: no self-loops; 100 m long to and from the intersection,
\* 100 m or 300 m long from threshold to threshold
TaxiwayEdges ==
    {edge \in [from_node : EdgeNodes, to_node : EdgeNodes,
               distance_meters : {100, 300}, bidirectional : BOOLEAN] :
        /\ edge.from_node /= edge.to_node
        /\ edge.distance_meters = 300 =>
               <<"A1", "intersection">> \notin {edge.from_node, edge.to_node}}

\* wind directions: each a multiple of 30 degrees off both headings
WindDirections == {40, 100, 190, 340}

InitTopology ==
    /\ heap = <<>>
    /\ aircraft = <<>>
    /\ wind_direction = 0
    /\ wind_speed = 0
    /\ active_runways = <<>>
    /\ topology = NewTopology
    /\ active_conflicts = <<>>
    /\ last_update_time = 0
    /\ update_count = 0
    /\ now = 0
    /\ world_state = Nothing
    /\ conflicts = <<>>
    /\ ret = [op |-> "AirportTopology", result |-> Nothing, raised |-> FALSE,
              args |-> <<>>]

TopologyUnchanged ==
    UNCHANGED <<heap, aircraft, wind_direction, wind_speed, active_runways,
                active_conflicts, last_update_time, update_count, now,
                world_state, conflicts>>

AddRunway(runway) ==
    /\ topology' = add_runway(topology, runway)
    /\ ret' = [op |-> "add_runway", result |-> Nothing, raised |-> FALSE,
               args |-> <<runway.name>>]
    /\ TopologyUnchanged

AddNode(node_id) ==
    /\ topology' = add_node(topology, node_id)
    /\ ret' = [op |-> "add_node", result |-> Nothing, raised |-> FALSE,
               args |-> <<node_id>>]
    /\ TopologyUnchanged

AddEdge(edge) ==
    /\ Cardinality(DOMAIN topology.graph.edges) < MaxEdges
    /\ topology' = add_edge(topology, edge)
    /\ ret' = [op |-> "add_edge", result |-> Nothing, raised |-> FALSE,
               args |-> <<edge>>]
    /\ TopologyUnchanged

FindShortestPath(from_node, to_node) ==
    /\ \E outcome \in find_shortest_path(topology, from_node, to_node) :
           ret' = [op |-> "find_shortest_path", result |-> outcome.result,
                   raised |-> outcome.raised, args |-> <<from_node, to_node>>]
    /\ UNCHANGED topology
    /\ TopologyUnchanged

ValidateTopology ==
    /\ \E outcome \in {validate_topology(topology)} :
           ret' = [op |-> "validate_topology", result |-> outcome.result,
                   raised |-> outcome.raised, args |-> <<>>]
    /\ UNCHANGED topology
    /\ TopologyUnchanged

GetActiveRunways(direction, speed, prefer_into_wind) ==
    /\ ret' = [op |-> "get_active_runways",
               result |-> get_active_runways(topology, direction, speed,
                                             prefer_into_wind),
               raised |-> FALSE, args |-> <<direction, speed, prefer_into_wind>>]
    /\ UNCHANGED topology
    /\ TopologyUnchanged

NextTopology ==
    \/ \E runway \in TopologyRunways : AddRunway(runway)
    \/ AddNode(<<"A1", "intersection">>)
    \/ \E edge \in TaxiwayEdges : AddEdge(edge)
    \/ \E from_node \in QueryNodes, to_node \in QueryNodes :
           FindShortestPath(from_node, to_node)
    \/ ValidateTopology
    \/ \E direction \in WindDirections, prefer_into_wind \in BOOLEAN :
           GetActiveRunways(direction, 10, prefer_into_wind)

SpecTopology == InitTopology /\ [][NextTopology]_vars

(***************************************************************************)
(* Topologies of up to MaxRunways runways, asked for intersecting runways. *)
(***************************************************************************)
\* runway names and headings: 45, 90, 135 and 180 degrees apart, and two pairs
\* whose plain difference is above 180 degrees
HeadingOf(runway_name) ==
    CASE runway_name = "04L" -> 40
      [] runway_name = "09" -> 85
      [] runway_name = "13R" -> 130
      [] runway_name = "18" -> 175
      [] runway_name = "22R" -> 220
      [] OTHER -> 340

CrossingRunwayNames == {"04L", "09", "13R", "18", "22R", "34"}

\* the names asked for: those, and one that is never added
AskedRunwayNames == CrossingRunwayNames \cup {"27R"}

\* add_runway called for each runway of the list in turn
RECURSIVE WithRunways(_, _)
WithRunways(topo, names) ==
    IF names = <<>> THEN topo
    ELSE WithRunways(add_runway(topo, Runway(Head(names), HeadingOf(Head(names)),
                                             Position(4064000, Meridian, 13, 0))),
                     Tail(names))

InitRunways ==
    /\ heap = <<>>
    /\ aircraft = <<>>
    /\ wind_direction = 0
    /\ wind_speed = 0
    /\ active_runways = <<>>
    /\ \E n \in 0..MaxRunways : \E names \in [1..n -> CrossingRunwayNames] :
           /\ \A i, j \in 1..n : i /= j => names[i] /= names[j]
           /\ topology = WithRunways(NewTopology, names)
    /\ active_conflicts = <<>>
    /\ last_update_time = 0
    /\ update_count = 0
    /\ now = 0
    /\ world_state = Nothing
    /\ conflicts = <<>>
    /\ ret = [op |-> "add_runway", result |-> Nothing, raised |-> FALSE,
              args |-> <<>>]

GetIntersectingRunways(runway_name) ==
    /\ ret' = [op |-> "get_intersecting_runways",
               result |-> get_intersecting_runways(topology, runway_name),
               raised |-> FALSE, args |-> <<runway_name>>]
    /\ UNCHANGED topology
    /\ TopologyUnchanged

NextRunways == \E runway_name \in AskedRunwayNames : GetIntersectingRunways(runway_name)

SpecRunways == InitRunways /\ [][NextRunways]_vars

(***************************************************************************)
(* action_module.send_command.  In this specification ret is the call in   *)
(* progress: stack holds the frames of send_command, innermost last, each  *)
(* with its text, its retries and the attempts its loop has made;          *)
(* attempted lists the texts typed so far.                                 *)
(***************************************************************************)
\* the command texts and retry counts send_command is called with
CommandTexts == {"AAL789 RUNWAY 09 CLEARED FOR TAKEOFF", "HOLD POSITION"}

RetryCounts == 0..3

\* an attempt: the log confirms the command, the log does not confirm it, or
\* pyautogui raises
AttemptOutcomes == {"verified", "unverified", "raised"}

Frame(text, retries) == [text |-> text, retries |-> retries, attempt |-> 0]

InitCommand ==
    /\ heap = <<>>
    /\ aircraft = <<>>
    /\ wind_direction = 0
    /\ wind_speed = 0
    /\ active_runways = <<>>
    /\ topology = Nothing
    /\ active_conflicts = <<>>
    /\ last_update_time = 0
    /\ update_count = 0
    /\ now = 0
    /\ world_state = Nothing
    /\ conflicts = <<>>
    /\ \E text \in CommandTexts, retries \in RetryCounts :
           ret = [op |-> "send_command", text |-> text, retries |-> retries,
                  stack |-> <<Frame(text, retries)>>, attempted |-> <<>>,
                  result |-> Nothing, raised |-> FALSE]

CommandUnchanged ==
    UNCHANGED <<heap, aircraft, wind_direction, wind_speed, active_runways,
                topology, active_conflicts, last_update_time, update_count, now,
                world_state, conflicts>>

\* one pass of the loop body in the innermost call.  `return True` ends that
\* call; every call above it is at the fallback line and goes on to
\* `return False`.
Attempt(outcome) ==
    /\ ret.stack /= <<>>
    /\ LET depth == Len(ret.stack)
           top == ret.stack[depth]
       IN /\ top.attempt < top.retries
          /\ ret' = IF outcome = "verified"
                    THEN [ret EXCEPT !.attempted = Append(ret.attempted, top.text),
                                     !.stack = <<>>,
                                     !.result = Some(depth = 1)]
                    ELSE [ret EXCEPT !.attempted = Append(ret.attempted, top.text),
                                     !.stack[depth].attempt = top.attempt + 1]
    /\ CommandUnchanged

\* the loop of the innermost call is over: send_command("HOLD POSITION",
\* retries=1).  The call is not inside the try: past the recursion limit
\* RecursionError leaves every call on the stack.
Fallback ==
    /\ ret.stack /= <<>>
    /\ LET depth == Len(ret.stack)
           top == ret.stack[depth]
       IN /\ top.attempt >= top.retries
          /\ ret' = IF depth >= MaxDepth
                    THEN [ret EXCEPT !.stack = <<>>, !.raised = TRUE]
                    ELSE [ret EXCEPT !.stack = Append(ret.stack,
                                                      Frame("HOLD POSITION", 1))]
    /\ CommandUnchanged

NextCommand ==
    \/ \E outcome \in AttemptOutcomes : Attempt(outcome)
    \/ Fallback

SpecCommand == InitCommand /\ [][NextCommand]_vars

(***************************************************************************)
(* The claims.                                                             *)
(***************************************************************************)
CompletedUpdate == ret.op = "update_from_perception" /\ ~ret.raised

\* C1: after every completed update_from_perception the callsigns of the
\* registry are exactly the callsigns of the snapshot, and so are the
\* callsigns of get_state().aircraft; a callsign removed in the cycle is in
\* neither.
C1_RegistryMatchesSnapshot ==
    CompletedUpdate =>
        /\ RegisteredCallsigns(heap, aircraft) = ret.callsigns
        /\ DOMAIN get_state(heap, aircraft, now).aircraft = ret.callsigns
        /\ \A c \in ret.exited :
               /\ c \notin RegisteredCallsigns(heap, aircraft)
               /\ c \notin DOMAIN get_state(heap, aircraft, now).aircraft

\* C1 witness: a cycle removed one callsign and kept another
C1_Witness ==
    /\ CompletedUpdate
    /\ ret.exited = {"AAL789"}
    /\ RegisteredCallsigns(heap, aircraft) = {"UAL123"}
    /\ update_count >= 2

\* C7: after every completed update_from_perception no active conflict names
\* a callsign that is not registered, and an empty registry leaves no active
\* conflict (get_state().conflicts empty, has_critical_conflicts false).
C7_ActiveConflictsOfThisCycle ==
    CompletedUpdate =>
        /\ \A id \in DOMAIN active_conflicts :
               {active_conflicts[id].aircraft1, active_conflicts[id].aircraft2}
                   \subseteq RegisteredCallsigns(heap, aircraft)
        /\ \A c \in Callsigns \ RegisteredCallsigns(heap, aircraft) :
               get_conflicts_for_aircraft(c) = {}
        /\ aircraft = <<>> =>
               /\ active_conflicts = <<>>
               /\ get_state(heap, aircraft, now).conflicts = {}
               /\ ~has_critical_conflicts

(***************************************************************************)
(* Claims about one detection pass: the tracks passed are Tracks(heap,     *)
(* aircraft), the list returned is conflicts.                              *)
(***************************************************************************)
Detected == ret.op = "detect_all_conflicts"

Passed == Tracks(heap, aircraft)

OfType(conflict_type) ==
    SelectSeq(conflicts, LAMBDA c : c.conflict_type = conflict_type)

\* the conflicts of one type that name the two callsigns, in either order
Naming(conflict_type, a, b) ==
    SelectSeq(conflicts, LAMBDA c : /\ c.conflict_type = conflict_type
                                    /\ {c.aircraft1, c.aircraft2} = {a, b})

SeverityRank(severity) ==
    CASE severity = "critical" -> 3
      [] severity = "warning" -> 2
      [] OTHER -> 1

\* C2: the list returned by detect_all_conflicts is severity-sorted, critical
\* first: no warning or advisory precedes a critical, no advisory precedes a
\* warning.
C2_CriticalFirst ==
    Detected =>
        \A i, j \in 1..Len(conflicts) :
            i < j => SeverityRank(conflicts[i].severity)
                         >= SeverityRank(conflicts[j].severity)

\* the prediction steps at which the extrapolated separation of tracks i and j
\* is below the horizontal minimum
ViolatingSteps(i, j) ==
    {step \in 1..prediction_steps :
        LET time_ahead == (prediction_horizon_seconds \div prediction_steps) * step
            p1 == predict_position(Passed[i], time_ahead)
            p2 == predict_position(Passed[j], time_ahead)
        IN /\ p1 /= Nothing
           /\ p2 /= Nothing
           /\ distance_to(p1[1], p2[1]) < horizontal_separation_nm}

\* C3: one detection pass reports each unordered pair of aircraft at most once
\* as a predicted_conflict, with time_to_conflict the earliest step at which
\* the pair's extrapolated separation is below the horizontal minimum.
C3_EarliestStepOnly ==
    Detected =>
        \A i, j \in 1..Len(Passed) :
            i < j =>
                LET reported == Naming("predicted_conflict", Passed[i].callsign,
                                       Passed[j].callsign)
                    steps == ViolatingSteps(i, j)
                IN /\ Len(reported) <= 1
                   /\ Len(reported) = 1 =>
                          /\ steps /= {}
                          /\ \A step \in steps :
                                 reported[1].time_to_conflict[1]
                                     <= (prediction_horizon_seconds
                                             \div prediction_steps) * step
                   /\ steps /= {} => Len(reported) >= 1

AirborneStatuses ==
    {"IN_FLIGHT", "ON_APPROACH", "ON_FINAL", "TAKING_OFF", "LANDING"}

\* C4: for every unordered pair of airborne aircraft there is exactly one
\* separation_violation when their separation is below 3.0 nm and none
\* otherwise; it is critical below 2.0 nm and a warning from 2.0 nm on.
C4_SeparationViolations ==
    Detected =>
        \A i, j \in 1..Len(Passed) :
            (/\ i < j
             /\ Passed[i].status \in AirborneStatuses
             /\ Passed[j].status \in AirborneStatuses) =>
                LET reported == Naming("separation_violation", Passed[i].callsign,
                                       Passed[j].callsign)
                    nm == distance_to(Passed[i].position, Passed[j].position)
                IN IF nm < 3000
                   THEN /\ Len(reported) = 1
                        /\ reported[1].severity =
                               IF nm < 2000 THEN "critical" ELSE "warning"
                        /\ reported[1].distance_nm = nm
                   ELSE Len(reported) = 0

\* C4 witness: a pass over two airborne aircraft 2.5 nm apart gave one warning,
\* and nothing else of that type
C4_Witness ==
    /\ Detected
    /\ Len(Passed) = 2
    /\ Passed[1].status = "IN_FLIGHT" /\ Passed[2].status = "IN_FLIGHT"
    /\ distance_to(Passed[1].position, Passed[2].position) = 2503
    /\ Len(OfType("separation_violation")) = 1
    /\ OfType("separation_violation")[1].severity = "warning"

\* the tracks on a runway, in track order
OnRunway(name) ==
    SelectSeq(Passed, LAMBDA ac :
        /\ ac.assigned_runway = name
        /\ ac.status \in {"TAKING_OFF", "LANDING", "ON_RUNWAY"})

\* C5: a runway with more than one aircraft assigned to it in status
\* TAKING_OFF, LANDING or ON_RUNWAY gets exactly one runway_incursion, critical,
\* naming the first two such aircraft in track order; a runway with at most one
\* gets none.
C5_RunwayIncursions ==
    Detected =>
        /\ \A k \in 1..Len(RunwayList(topology)) :
               LET name == RunwayList(topology)[k].name
                   on == OnRunway(name)
                   reported == SelectSeq(OfType("runway_incursion"),
                                         LAMBDA c : c.description[2] = name)
               IN IF Len(on) > 1
                  THEN /\ Len(reported) = 1
                       /\ reported[1].severity = "critical"
                       /\ reported[1].aircraft1 = on[1].callsign
                       /\ reported[1].aircraft2 = on[2].callsign
                  ELSE Len(reported) = 0
        /\ \A k \in 1..Len(OfType("runway_incursion")) :
               OfType("runway_incursion")[k].description[2]
                   \in RunwayNames(topology)

\* C5 witness: three aircraft on runway 09 gave one incursion naming the first
\* two
C5_Witness ==
    /\ Detected
    /\ Len(OnRunway("09")) = 3
    /\ Len(OfType("runway_incursion")) = 1
    /\ OfType("runway_incursion")[1].aircraft2 = Passed[2].callsign

\* the ON_FINAL tracks assigned to a runway, nearest its threshold first
ApproachSequence(runway) ==
    LET group == SelectSeq(Passed, LAMBDA ac : /\ ac.status = "ON_FINAL"
                                               /\ ac.assigned_runway = runway.name)
    IN SortByKey(group, [k \in 1..Len(group) |->
                            distance_to(group[k].position, runway.threshold_position)])

\* every ON_FINAL track is assigned to a runway of the airport, and no two
\* tracks of one approach are equally far from its threshold
ApproachesOrdered ==
    /\ \A k \in 1..Len(Passed) :
           Passed[k].status = "ON_FINAL" =>
               Passed[k].assigned_runway \in RunwayNames(topology)
    /\ \A r \in 1..Len(RunwayList(topology)) :
           LET runway == RunwayList(topology)[r]
               on == ApproachSequence(runway)
           IN \A i, j \in 1..Len(on) :
                  i < j => distance_to(on[i].position, runway.threshold_position)
                               < distance_to(on[j].position, runway.threshold_position)

\* the required separation behind a leader, by the weight classes: 4, 5 and
\* 6 nm behind a HEAVY, the horizontal minimum behind the others
RequiredBehind(leader, follower) ==
    IF leader.weight_class = "HEAVY"
    THEN CASE follower.weight_class = "HEAVY" -> 4000
           [] follower.weight_class = "MEDIUM" -> 5000
           [] OTHER -> 6000
    ELSE 3000

\* the (leader, follower) pairs that are too close, over all approaches
TooCloseBehind ==
    UNION {LET on == ApproachSequence(RunwayList(topology)[r])
           IN {<<on[i].callsign, on[i + 1].callsign>> :
                  i \in {n \in 1..(Len(on) - 1) :
                            distance_to(on[n].position, on[n + 1].position)
                                < RequiredBehind(on[n], on[n + 1])}} :
           r \in 1..Len(RunwayList(topology))}

\* C6: the wake-turbulence check orders the ON_FINAL aircraft of a runway by
\* their distance to that runway's threshold, nearest first, and gives one
\* warning per adjacent (leader, follower) pair whose separation is below the
\* required one, naming the follower as too close, and no other.
C6_WakeTurbulence ==
    (Detected /\ ApproachesOrdered) =>
        /\ {<<c.aircraft1, c.aircraft2>> :
               c \in {OfType("wake_turbulence")[k] :
                         k \in 1..Len(OfType("wake_turbulence"))}} = TooCloseBehind
        /\ Len(OfType("wake_turbulence")) = Cardinality(TooCloseBehind)
        /\ \A k \in 1..Len(OfType("wake_turbulence")) :
               LET c == OfType("wake_turbulence")[k]
               IN /\ c.severity = "warning"
                  /\ c.description[2] = c.aircraft2

\* C6, the scenario: a HEAVY leader nearest the threshold of runway 04L with a
\* LIGHT follower 5.0 nm behind it gives exactly one wake_turbulence warning.
C6_HeavyLightScenario ==
    (/\ Detected
     /\ Len(Passed) = 2
     /\ \A k \in 1..2 : /\ Passed[k].status = "ON_FINAL"
                        /\ Passed[k].assigned_runway = "04L"
     /\ \E l, f \in 1..2 :
            /\ Passed[l].weight_class = "HEAVY"
            /\ Passed[f].weight_class = "LIGHT"
            /\ Passed[l].position.lat = 4072330
            /\ Passed[f].position.lat = 4064000) =>
        Len(OfType("wake_turbulence")) = 1

(***************************************************************************)
(* Claims about the orchestrator's other operations.                       *)
(***************************************************************************)
\* what the decision layer reads through the WorldState it holds
Observed ==
    IF world_state = Nothing THEN Nothing
    ELSE Some([timestamp |-> world_state[1].timestamp,
               aircraft |-> [c \in DOMAIN world_state[1].aircraft |->
                                heap[world_state[1].aircraft[c]]],
               active_runways |-> world_state[1].active_runways,
               wind_direction |-> world_state[1].wind_direction,
               wind_speed |-> world_state[1].wind_speed,
               conflicts |-> world_state[1].conflicts])

\* C8: a WorldState returned by get_state is an immutable snapshot: as long as
\* it is held, no operation of the orchestrator changes its callsigns, the
\* position, status, assigned runway or history of its aircraft, its wind, its
\* active runways or its conflict descriptions.
C8_SnapshotImmutable ==
    [][(world_state /= Nothing /\ world_state' = world_state)
           => Observed' = Observed]_vars

\* the tracks other than the named one are left as they are, and so is the
\* registry
OthersUnchanged(callsign) ==
    /\ aircraft' = aircraft
    /\ DOMAIN heap' = DOMAIN heap
    /\ \A o \in DOMAIN heap : heap[o].callsign /= callsign => heap'[o] = heap[o]

\* the named track changes in its assigned runway alone
AssignedOnly(callsign, runway_name) ==
    LET o == Lookup(heap, aircraft, callsign)
    IN heap'[o] = [heap[o] EXCEPT !.assigned_runway = runway_name]

ClearedStatus(clearance_type, status) ==
    CASE clearance_type = "takeoff" -> "TAKING_OFF"
      [] clearance_type = "landing" -> "LANDING"
      [] clearance_type = "taxi" -> "TAXIING"
      [] OTHER -> status

\* C10: clear_aircraft on a registered callsign sets that track's status to
\* TAKING_OFF for 'takeoff', LANDING for 'landing', TAXIING for 'taxi' and
\* leaves the registry unchanged for any other type, without raising; on an
\* unregistered callsign it returns false and changes nothing; no track other
\* than the named one is changed.
C10_ClearAircraft ==
    [][\A callsign \in CommandCallsigns, clearance_type \in ClearanceTypes :
          ClearAircraft(callsign, clearance_type) =>
              /\ ~ret'.raised
              /\ IF callsign \notin RegisteredCallsigns(heap, aircraft)
                 THEN /\ ret'.result = Some(FALSE)
                      /\ heap' = heap
                      /\ aircraft' = aircraft
                 ELSE /\ OthersUnchanged(callsign)
                      /\ LET o == Lookup(heap, aircraft, callsign)
                         IN heap'[o] =
                                [heap[o] EXCEPT !.status =
                                    ClearedStatus(clearance_type, heap[o].status)]]_vars

\* C10 witness: one of two tracks was cleared to taxi, the other is as it was
\* registered
C10_Witness ==
    /\ ret.op = "clear_aircraft"
    /\ ret.result = Some(TRUE)
    /\ Len(aircraft) = 2
    /\ \E o, p \in DOMAIN heap : /\ heap[o].status = "TAXIING"
                                 /\ heap[p].status = "IN_FLIGHT"


(***************************************************************************)
(* Claims about the snapshots perception hands in.                         *)
(***************************************************************************)
\* the entry leaves the fields of its track as they were, for every key it
\* leaves out
KeepsPrior(e) ==
    LET old == heap[Lookup(heap, aircraft, e.callsign)]
        new == heap'[Lookup(heap', aircraft', e.callsign)]
    IN /\ e.altitude = Nothing => new.position.altitude_ft = old.position.altitude_ft
       /\ e.heading = Nothing => new.heading = old.heading
       /\ e.speed = Nothing => new.speed_knots = old.speed_knots
       /\ e.status = None => new.status = old.status

\* C11: when a snapshot leaves an optional field out, update_from_perception
\* keeps the prior value: an entry without altitude, heading, speed or status
\* leaves that field of its track as it was, a wind record without direction
\* or without speed leaves the stored wind direction or wind speed as it was.
C11_MissingKeepsPrior ==
    [][\A perception_data \in FieldSnapshots :
          UpdateFromPerception(perception_data, 10, MaxFieldCycles) =>
              /\ \A k \in 1..Len(perception_data.aircraft) :
                     perception_data.aircraft[k].callsign
                             \in RegisteredCallsigns(heap, aircraft)
                         => KeepsPrior(perception_data.aircraft[k])
              /\ perception_data.wind /= Nothing =>
                     /\ perception_data.wind[1].direction = Nothing
                            => wind_direction' = wind_direction
                     /\ perception_data.wind[1].speed = Nothing
                            => wind_speed' = wind_speed]_vars

\* C11, the aircraft half alone: an entry without altitude, heading, speed or
\* status leaves that field of its track as it was.
C11_EntryKeepsPrior ==
    [][\A perception_data \in FieldSnapshots :
          UpdateFromPerception(perception_data, 10, MaxFieldCycles) =>
              \A k \in 1..Len(perception_data.aircraft) :
                  perception_data.aircraft[k].callsign
                          \in RegisteredCallsigns(heap, aircraft)
                      => KeepsPrior(perception_data.aircraft[k])]_vars

\* C12: update_from_perception never aborts part-way: every cycle, also one
\* whose entry carries an unknown status name, runs to completion, so after it
\* the callsigns absent from the snapshot are removed, the detector has run
\* and the counter is advanced.
C12_NeverAborts ==
    ret.op = "update_from_perception" =>
        /\ ~ret.raised
        /\ RegisteredCallsigns(heap, aircraft) = ret.callsigns
        /\ ret.detected
        /\ last_update_time = now
        /\ update_count * 10 = now


(***************************************************************************)
(* Claims about one track.                                                 *)
(***************************************************************************)
\* C13: after n update_position calls position_history holds exactly the last
\* min(n, 20) inserted positions in insertion order; after 25 calls its length
\* is 20 and its first entry is the 6th inserted position.
C13_HistoryKeepsLast20 ==
    ret.op \in {"Aircraft", "update_position"} =>
        LET n == Len(ret.inserted)
            h == heap[1].position_history
        IN /\ Len(h) = IF n < 20 THEN n ELSE 20
           /\ \A k \in 1..Len(h) : h[k] = ret.inserted[n - Len(h) + k]
           /\ n = 25 => (Len(h) = 20 /\ h[1] = ret.inserted[6])

\* C13 witness: 25 calls were made, all with different positions
C13_Witness ==
    /\ ret.op = "update_position"
    /\ Len(ret.inserted) = 25
    /\ ret.repeats = 0
    /\ heap[1].position_history[1].timestamp = 60

\* C14: update_position is idempotent under duplicate timestamps: a second
\* call in a row with the same position leaves position, last_seen and
\* position_history as the first call left them.
C14_UpdateIdempotent ==
    [][(ret.op = "update_position" /\ UpdatePosition(1, heap[1].position)) =>
           /\ heap'[1].position = heap[1].position
           /\ heap'[1].last_seen = heap[1].last_seen
           /\ heap'[1].position_history = heap[1].position_history]_vars


\* the track has fewer than two history entries, or its last two have equal
\* timestamps
NoVelocityData(ac) ==
    LET h == ac.position_history
    IN \/ Len(h) < 2
       \/ h[Len(h)].timestamp = h[Len(h) - 1].timestamp

\* C15: velocity_vector and predict_position are unavailable exactly when the
\* track has fewer than two history entries or its last two entries have equal
\* timestamps, predict_position under exactly the conditions of
\* velocity_vector, and the predicted-conflict check skips every pair in which
\* a prediction is unavailable.
C15_UnavailableVelocity ==
    /\ \A oid \in DOMAIN heap :
           /\ velocity_vector(heap[oid]) = Nothing <=> NoVelocityData(heap[oid])
           /\ \A step \in 1..prediction_steps :
                  predict_position(heap[oid], 10 * step) = Nothing
                      <=> velocity_vector(heap[oid]) = Nothing
    /\ Detected =>
           \A i, j \in 1..Len(Passed) :
               (i < j /\ (NoVelocityData(Passed[i]) \/ NoVelocityData(Passed[j])))
                   => Len(Naming("predicted_conflict", Passed[i].callsign,
                                 Passed[j].callsign)) = 0

\* C15 witness: the detector ran over a track with a velocity and a track 1.5 nm
\* from it whose two history entries have one timestamp, and predicted nothing
C15_Witness ==
    /\ Detected
    /\ ~NoVelocityData(heap[1])
    /\ Len(heap[2].position_history) = 2
    /\ NoVelocityData(heap[2])
    /\ distance_to(heap[1].position, heap[2].position) < 3000
    /\ Len(OfType("predicted_conflict")) = 0
    /\ Len(OfType("separation_violation")) = 1


\* the nodes reached from the nodes of reached along directed edges
RECURSIVE Reachable(_, _)
Reachable(g, reached) ==
    LET more == reached \cup
                {n \in g.nodes : \E m \in reached : <<m, n>> \in DOMAIN g.edges}
    IN IF more = reached THEN reached ELSE Reachable(g, more)

\* there is a directed path from from_node to to_node, both nodes of the graph
DirectedPath(g, from_node, to_node) ==
    /\ from_node \in g.nodes
    /\ to_node \in Reachable(g, {from_node})

\* C16: find_shortest_path(from, to) returns None and raises nothing whenever
\* there is no directed path from `from` to `to`: when the nodes are there but
\* not the connecting edges, and when one of the two is not a node of the graph.
C16_NoPathIsNone ==
    ret.op = "find_shortest_path" =>
        (~DirectedPath(topology.graph, ret.args[1], ret.args[2]) =>
            ~ret.raised /\ ret.result = Nothing)

\* C17: validate_topology returns its list of warnings without raising for
\* every topology built with add_runway, add_node and add_edge, the empty one
\* included; the list has an isolated-node warning for every registered node
\* without an incident edge, and a disconnected-components warning whenever the
\* graph has more than one weakly connected component.
C17_ValidateNeverRaises ==
    ret.op = "validate_topology" =>
        /\ ~ret.raised
        /\ \A k \in 1..Len(topology.nodes) :
               (\A e \in DOMAIN topology.graph.edges :
                    e[1] /= topology.nodes[k] /\ e[2] /= topology.nodes[k])
               => \E i \in 1..Len(ret.result) :
                      ret.result[i] = <<"isolated", topology.nodes[k]>>
        /\ Cardinality(weakly_connected_components(topology.graph)) > 1
               => \E i \in 1..Len(ret.result) :
                      ret.result[i][1] = "disconnected components"

\* the angle between two directions, at most 180 degrees
AngleBetween(a, b) == Min((a - b) % 360, (b - a) % 360)

\* the headwind component on a runway, in thousandths of the unit of speed
HeadwindComponent(runway, direction, speed) ==
    speed * Cos1000(AngleBetween(runway.magnetic_heading, direction))

\* C18: get_active_runways returns the runways ranked by headwind component
\* descending; with prefer_into_wind set the result holds exactly the runways
\* whose heading is within 90 degrees of the wind direction, wrap-around
\* included; with prefer_into_wind not set the headwind filter is not applied
\* and the runways that do not qualify as headwind are returned as well.
C18_ActiveRunwaysRanked ==
    ret.op = "get_active_runways" =>
        LET direction == ret.args[1]
            speed == ret.args[2]
            prefer_into_wind == ret.args[3]
            returned == {ret.result[k] : k \in 1..Len(ret.result)}
            all == {topology.runways[k] : k \in 1..Len(topology.runways)}
        IN /\ \A i, j \in 1..Len(ret.result) :
                  i < j => HeadwindComponent(ret.result[i], direction, speed)
                               >= HeadwindComponent(ret.result[j], direction, speed)
           /\ prefer_into_wind =>
                  returned = {runway \in all :
                      AngleBetween(runway.magnetic_heading, direction) <= 90}
           /\ ~prefer_into_wind => returned = all


GroundStatuses == {"ON_GROUND", "TAXIING", "AT_GATE", "ON_RUNWAY", "LANDED"}

\* C19: the horizontal-separation check looks at airborne aircraft only: no
\* separation_violation is produced for a pair in which either aircraft has a
\* ground status (ON_GROUND, TAXIING, AT_GATE, ON_RUNWAY, LANDED), however
\* close the two positions are.
C19_GroundPairsSkipped ==
    Detected =>
        \A i, j \in 1..Len(Passed) :
            (/\ i < j
             /\ \/ Passed[i].status \in GroundStatuses
                \/ Passed[j].status \in GroundStatuses) =>
                Len(Naming("separation_violation", Passed[i].callsign,
                           Passed[j].callsign)) = 0

\* the required wake separation by the weight classes of leader and follower
WakeSeparationTable(leader_class, follower_class) ==
    CASE leader_class = "HEAVY" /\ follower_class = "HEAVY" -> 4000
      [] leader_class = "HEAVY" /\ follower_class = "MEDIUM" -> 5000
      [] leader_class = "HEAVY" /\ follower_class = "LIGHT" -> 6000
      [] OTHER -> 3000

\* C20: the required wake separation of a (leader, follower) pair is 4 nm for
\* HEAVY behind HEAVY, 5 nm for MEDIUM behind HEAVY, 6 nm for LIGHT behind
\* HEAVY, and the standard horizontal minimum for every other combination of
\* LIGHT, MEDIUM, HEAVY and SUPER, a SUPER follower behind a HEAVY leader and
\* every pair with a SUPER leader included.
C20_RequiredWakeSeparation ==
    Detected =>
        /\ \A l, f \in 1..Len(Passed) :
               l /= f => _required_wake_separation(Passed[l], Passed[f])
                             = WakeSeparationTable(Passed[l].weight_class,
                                                   Passed[f].weight_class)
        /\ \A k \in 1..Len(OfType("wake_turbulence")) :
               \A l, f \in 1..Len(Passed) :
                   (/\ Passed[l].callsign = OfType("wake_turbulence")[k].aircraft1
                    /\ Passed[f].callsign = OfType("wake_turbulence")[k].aircraft2)
                   => OfType("wake_turbulence")[k].distance_nm
                          < WakeSeparationTable(Passed[l].weight_class,
                                                Passed[f].weight_class)


\* C21: in every reachable state, a track whose position_history is not empty
\* has the last entry of the history as its position, and that entry's
\* timestamp as last_seen: after the orchestrator created the track and after
\* every update_position.
C21_PositionIsLastOfHistory ==
    \A o \in DOMAIN heap :
        LET h == heap[o].position_history
        IN Len(h) > 0 =>
               /\ heap[o].position = h[Len(h)]
               /\ heap[o].last_seen = h[Len(h)].timestamp

\* C21 witness: after an update cycle a track created by the orchestrator has
\* been seen twice more, at two latitudes
C21_Witness ==
    /\ ret.op = "update_from_perception"
    /\ \E k \in 1..Len(aircraft) :
           LET h == heap[aircraft[k]].position_history
           IN /\ Len(h) = 2
              /\ h[1].lat /= h[2].lat
              /\ heap[aircraft[k]].position = h[2]


DetectedIds(r, found) ==
    IF r.op = "update_from_perception" /\ r.detected THEN ConflictIds(found) ELSE {}

\* C23: across consecutive update cycles a conflict, identified by its
\* canonical id, is classified as newly appeared in cycle k exactly when it is
\* detected in cycle k and was not detected in cycle k-1, and as resolved in
\* cycle k exactly when it was detected in cycle k-1 and is not detected in
\* cycle k, the cycle in which the aircraft involved leave the registry
\* included; the id is the same whichever callsign is listed first.
C23_AppearedAndResolved ==
    [][(ret'.op = "update_from_perception" /\ ~ret'.raised) =>
           LET logged_new == IF ret'.detected
                                 THEN appeared(active_conflicts, conflicts') ELSE {}
               logged_resolved == IF ret'.detected
                                      THEN resolved(active_conflicts, conflicts') ELSE {}
           IN /\ logged_new = DetectedIds(ret', conflicts') \ DetectedIds(ret, conflicts)
              /\ logged_resolved
                     = DetectedIds(ret, conflicts) \ DetectedIds(ret', conflicts')
              /\ \A k \in 1..Len(conflicts') :
                     _conflict_id(conflicts'[k])
                         = _conflict_id([conflicts'[k] EXCEPT
                               !.aircraft1 = conflicts'[k].aircraft2,
                               !.aircraft2 = conflicts'[k].aircraft1])]_vars


\* the least total weight of a walk of at most hops edges from source to
\* target; 1000000 when there is none
RECURSIVE MinWeight(_, _, _, _)
MinWeight(g, source, target, hops) ==
    IF source = target THEN 0
    ELSE IF hops = 0 THEN 1000000
    ELSE LET over == {g.edges[e] + MinWeight(g, e[2], target, hops - 1) :
                         e \in {d \in DOMAIN g.edges : d[1] = source}}
                     \cup {1000000}
         IN CHOOSE w \in over : \A x \in over : w <= x

\* what add_edge(edge) leaves in the graph g_after, given the graph before
EdgeAdded(g_before, g_after, edge) ==
    LET forward == <<edge.from_node, edge.to_node>>
        backward == <<edge.to_node, edge.from_node>>
    IN /\ forward \in DOMAIN g_after.edges
       /\ g_after.edges[forward] = edge.distance_meters
       /\ IF edge.bidirectional
          THEN /\ backward \in DOMAIN g_after.edges
               /\ g_after.edges[backward] = edge.distance_meters
          ELSE /\ backward \in DOMAIN g_after.edges <=> backward \in DOMAIN g_before.edges
               /\ backward \in DOMAIN g_before.edges
                      => g_after.edges[backward] = g_before.edges[backward]
       /\ \A e \in (DOMAIN g_before.edges \cup DOMAIN g_after.edges)
                       \ {forward, backward} :
              /\ e \in DOMAIN g_before.edges
              /\ e \in DOMAIN g_after.edges
              /\ g_after.edges[e] = g_before.edges[e]

\* C24: whenever a directed path exists, find_shortest_path returns a path
\* from `from` to `to` along directed edges of the graph whose total weight is
\* the least of all such paths; an edge added as bidirectional can be taken
\* in both directions at the same weight, an edge added as non-bidirectional
\* only from its from_node to its to_node.
C24_ShortestPath ==
    [][/\ ret'.op = "add_edge" =>
              EdgeAdded(topology.graph, topology'.graph, ret'.args[1])
       /\ (/\ ret'.op = "find_shortest_path"
           /\ DirectedPath(topology.graph, ret'.args[1], ret'.args[2])) =>
              /\ ~ret'.raised
              /\ ret'.result /= Nothing
              /\ LET g == topology.graph
                     p == ret'.result[1]
                 IN /\ p[1] = ret'.args[1]
                    /\ p[Len(p)] = ret'.args[2]
                    /\ \A i \in 1..(Len(p) - 1) : <<p[i], p[i + 1]>> \in DOMAIN g.edges
                    /\ PathWeight(g, p) = MinWeight(g, ret'.args[1], ret'.args[2],
                                                    Cardinality(g.nodes))]_vars

\* C24 witness: from the threshold of 04L to the threshold of 13R the direct
\* edge is 300 m long, and the path returned goes over the intersection
C24_Witness ==
    /\ ret.op = "find_shortest_path"
    /\ ret.args = <<ThresholdNode("04L"), ThresholdNode("13R")>>
    /\ <<ThresholdNode("04L"), ThresholdNode("13R")>> \in DOMAIN topology.graph.edges
    /\ topology.graph.edges[<<ThresholdNode("04L"), ThresholdNode("13R")>>] = 300
    /\ ret.result = Some(<<ThresholdNode("04L"), <<"A1", "intersection">>,
                           ThresholdNode("13R")>>)


\* the runway names of the topology whose heading is 45 to 135 degrees off
\* the heading of the named runway
CrossingNames(topo, runway_name) ==
    {topo.runways[k].name : k \in {i \in 1..Len(topo.runways) :
        \E b \in 1..Len(topo.runways) :
            /\ topo.runways[b].name = runway_name
            /\ topo.runways[i].name /= runway_name
            /\ AngleBetween(topo.runways[b].magnetic_heading,
                            topo.runways[i].magnetic_heading) \in 45..135}}

\* C25: get_intersecting_runways(name) returns exactly the other runways whose
\* heading differs from the named runway's by 45 to 135 degrees inclusive
\* after wrap-around, never the named runway, and the empty list for an
\* unknown name; the relation is symmetric between registered runways.
C25_IntersectingRunways ==
    /\ ret.op = "get_intersecting_runways" =>
           /\ {ret.result[k] : k \in 1..Len(ret.result)}
                  = CrossingNames(topology, ret.args[1])
           /\ \A i, j \in 1..Len(ret.result) : i /= j => ret.result[i] /= ret.result[j]
           /\ \A k \in 1..Len(ret.result) : ret.result[k] /= ret.args[1]
           /\ (\A k \in 1..Len(topology.runways) :
                   topology.runways[k].name /= ret.args[1]) => ret.result = <<>>
    /\ \A a, b \in 1..Len(topology.runways) :
           LET of_a == get_intersecting_runways(topology, topology.runways[a].name)
               of_b == get_intersecting_runways(topology, topology.runways[b].name)
           IN (\E k \in 1..Len(of_a) : of_a[k] = topology.runways[b].name)
                  <=> (\E k \in 1..Len(of_b) : of_b[k] = topology.runways[a].name)

\* C25 witness: of 34 and 22R, runway 04L intersects 34, 300 degrees off in
\* plain difference, and not 22R, 180 degrees off
C25_Witness ==
    /\ ret.op = "get_intersecting_runways"
    /\ ret.args = <<"04L">>
    /\ Len(topology.runways) = 3
    /\ \E k \in 1..3 : topology.runways[k].name = "22R"
    /\ ret.result = <<"34">>


\* C26: the predicted-conflict check is complete over pairs: in one pass every
\* unordered pair of aircraft with predictions whose extrapolated separation
\* is below the horizontal minimum at some step is reported in a
\* predicted_conflict, also when one of the two is at the same steps in
\* predicted conflict with a third aircraft listed earlier.
C26_EveryPairReported ==
    Detected =>
        \A i, j \in 1..Len(Passed) :
            (i < j /\ ViolatingSteps(i, j) /= {}) =>
                Len(Naming("predicted_conflict", Passed[i].callsign,
                           Passed[j].callsign)) >= 1


\* C27: runway occupancy and incursion detection agree through the
\* orchestrator: after any sequence of update_from_perception, assign_runway
\* and clear_aircraft calls that ends in an update cycle, whenever
\* get_aircraft_on_runway(r) holds two or more aircraft the detector has an
\* active critical runway_incursion conflict, and has_critical_conflicts is
\* true, with or without an airport topology.
C27_OccupancyMeansIncursion ==
    CompletedUpdate =>
        \A runway_name \in RunwayArguments :
            Len(get_aircraft_on_runway(heap, aircraft, runway_name)) >= 2 =>
                /\ \E id \in DOMAIN active_conflicts :
                       /\ active_conflicts[id].conflict_type = "runway_incursion"
                       /\ active_conflicts[id].severity = "critical"
                /\ has_critical_conflicts


\* C28: a track's position_history records every position reported for it
\* since it last entered the registry, up to the last 20: a callsign detected in
\* n consecutive snapshots has min(n, 20) entries, one for the snapshot in
\* which it entered and one more for each snapshot after it; a callsign that
\* left and comes back starts a fresh track, with no history, assigned runway
\* or status from its earlier life.
C28_HistoryCountsSightings ==
    [][(ret'.op = "update_from_perception" /\ ~ret'.raised) =>
           \A c \in ret'.callsigns :
               LET seen == heap'[Lookup(heap', aircraft', c)]
               IN IF c \in RegisteredCallsigns(heap, aircraft)
                  THEN Len(seen.position_history)
                           = Min(Len(heap[Lookup(heap, aircraft, c)].position_history) + 1,
                                 HistoryLimit)
                  ELSE /\ Len(seen.position_history) = 1
                       /\ seen.position_history[1] = seen.position
                       /\ seen.assigned_runway = None
                       /\ seen.status = "IN_FLIGHT"]_vars


\* what an update cycle leaves of status and runway of the tracks it updates
StatusAndRunwayKept(perception_data) ==
    \A k \in 1..Len(perception_data.aircraft) :
        LET data == perception_data.aircraft[k]
        IN data.callsign \in RegisteredCallsigns(heap, aircraft) =>
               LET before == heap[Lookup(heap, aircraft, data.callsign)]
                   after == heap'[Lookup(heap', aircraft', data.callsign)]
               IN /\ after.status = IF data.status = None THEN before.status
                                                          ELSE data.status
                  /\ after.assigned_runway = before.assigned_runway

\* C29: a status set by clear_aircraft stays in force across later update
\* cycles as long as the snapshots carry no status for the callsign, and is
\* replaced by the snapshot's status in the first later cycle whose entry
\* carries one; in both cases the assigned_runway set by assign_runway is kept
\* across update cycles until the track is removed.
C29_ClearanceThenPerception ==
    [][\A perception_data \in ClearanceSnapshots, tick \in CyclePeriods :
           UpdateFromPerception(perception_data, tick, MaxClearanceCycles)
               => StatusAndRunwayKept(perception_data)]_vars

\* C29 witness: AAL789, assigned to runway 09 and cleared for takeoff, is
\* still TAKING_OFF on runway 09 after two update cycles that reported it
C29_Witness ==
    /\ CompletedUpdate
    /\ Len(aircraft) = 1
    /\ heap[aircraft[1]].status = "TAKING_OFF"
    /\ heap[aircraft[1]].assigned_runway = "09"
    /\ Len(heap[aircraft[1]].position_history) = 2


\* C30: send_command always terminates: for every command text and retry
\* count, also when every attempt fails verification or raises, it makes at
\* most `retries` attempts of the command and one attempt of the HOLD POSITION
\* fallback, and then returns false.
C30_BoundedAttempts ==
    ret.op = "send_command" =>
        /\ Len(ret.attempted) <= ret.retries + 1
        /\ \A k \in 1..Len(ret.attempted) :
               k > ret.retries => ret.attempted[k] = "HOLD POSITION"
        /\ ~ret.raised
        /\ (ret.stack = <<>> /\ Len(ret.attempted) = ret.retries + 1)
               => ret.result = Some(FALSE)

====
